---- MODULE Spec2Model ----
(***************************************************************************)
(* Model of the SQL validation helpers and of the preview/retry loop of    *)
(* the TechUp Streamlit apps.                                              *)
(*                                                                         *)
(* A text is a sequence of one-character strings.  Every helper is         *)
(* computed on the characters the way the Python source computes it       *)
(* (str.strip, str.upper, the in operator, re.sub, re.finditer).            *)
(***************************************************************************)
EXTENDS Integers, Sequences, FiniteSets, TLC

VARIABLES
    stmt,       \* the statement sql_in was written from (<<>> when it is a free text)
    sql_in,     \* the text handed to a helper function
    op,         \* the helper applied last ("none" before any call)
    arg,        \* the argument of the last call
    out,        \* the value the last call returned
    \* src/app.py, main(): one run of the script
    pc,                     \* where the script is
    schema_catalog,         \* schema_catalog: the dict get_schema_catalog returned
    add_clicked,            \* this run was started by "Add to Pipeline Factory"
    generated_sql,          \* st.session_state['generated_sql'] (None: no such key)
    attempt,                \* the loop variable attempt
    validation_messages,    \* the list validation_messages
    last_error,             \* the string last_error
    preview_df,             \* preview_df: None or a data frame
    exc,                    \* the exception the except clause is handling
    preview_sql,            \* the text handed to session.sql(...).to_pandas() last
    previews,               \* how many previews this run has executed
    pipeline_config,        \* the rows inserted into PIPELINE_CONFIG
    runs,                   \* how many runs of the script have started
    calls,                  \* the calls the last step of the retry loop made
    repairs,                \* how often this attempt has applied the auto-repair
    \* src/Pipeline Factory/app.py: one run of the script
    pf_pc,                  \* where the script is
    pf_sql,                 \* st.session_state["generated_sql"] (None: no such key)
    target_dt,              \* target_dt_database, target_dt_schema, target_dt_name
    is_select,              \* is_select
    is_ro,                  \* is_ro
    explain_ok,             \* explain_ok
    preview_ok,             \* preview_ok
    insert_clicked,         \* this run was started by the Insert button
    insert_enabled,         \* the Insert button is on the page and not disabled
    pf_config,              \* the rows inserted by insert_pipeline_config
    pf_runs,                \* how many runs of the script have started
    pf_calls,               \* the calls the last step of the script made
    \* apps/streamlit/app.py: PIPELINE_CONFIG and RUN_PIPELINE_FACTORY
    config,                 \* PIPELINE_CONFIG: pipeline_id -> row
    task_pc,                \* where the procedure is ("idle": not running)
    task_rows               \* the rows of the for statement still to come

helperVars == <<stmt, sql_in, op, arg, out>>

factoryVars ==
    <<pf_pc, pf_sql, target_dt, is_select, is_ro, explain_ok, preview_ok,
      insert_clicked, insert_enabled, pf_config, pf_runs, pf_calls>>

taskVars == <<config, task_pc, task_rows>>

loopVars ==
    <<pc, schema_catalog, add_clicked, generated_sql, attempt,
      validation_messages, last_error,
      preview_df, exc, preview_sql, previews, pipeline_config, runs, calls,
      repairs, factoryVars, taskVars>>

vars == <<helperVars, loopVars>>

\* Python's None; no text equals it, a text holds one-character strings only
None == <<"None">>

\* the element of a set of one element: TheOne({ F(v) : v \in {e} }) is F(e)
TheOne(S) == CHOOSE x \in S : TRUE

\* the first of a non-empty set of positions
First(S) == CHOOSE j \in S : \A k \in S : j <= k

\* the Pipeline Factory script is not running and has not run
FactoryIdle ==
    /\ pf_pc = "idle"
    /\ pf_sql = None
    /\ target_dt = [database |-> "", schema |-> "", name |-> ""]
    /\ is_select = FALSE
    /\ is_ro = FALSE
    /\ explain_ok = FALSE
    /\ preview_ok = FALSE
    /\ insert_clicked = FALSE
    /\ insert_enabled = FALSE
    /\ pf_config = <<>>
    /\ pf_runs = 0
    /\ pf_calls = <<>>

\* PIPELINE_CONFIG is empty and the procedure is not running
TaskIdle ==
    /\ config = <<>>
    /\ task_pc = "idle"
    /\ task_rows = <<>>

\* no helper has been applied
HelperIdle ==
    /\ stmt = <<>>
    /\ sql_in = <<>>
    /\ op = "none"
    /\ arg = <<>>
    /\ out = <<>>

\* the script is not running and the session state is empty; c is the
\* catalog at hand
LoopIdleWith(c) ==
    /\ pc = "idle"
    /\ schema_catalog = c
    /\ add_clicked = FALSE
    /\ generated_sql = None
    /\ attempt = 0
    /\ validation_messages = <<>>
    /\ last_error = ""
    /\ preview_df = None
    /\ exc = ""
    /\ preview_sql = None
    /\ previews = 0
    /\ pipeline_config = <<>>
    /\ runs = 0
    /\ calls = <<>>
    /\ repairs = 0
    /\ FactoryIdle
    /\ TaskIdle

\* no catalog: the local variable schema_catalog is not bound
NoCatalog == <<>>

\* the script is not running: it has fetched no catalog
LoopIdle == LoopIdleWith(NoCatalog)

(***************************************************************************)
(* Characters                                                              *)
(***************************************************************************)
LowerSeq ==
    <<"a","b","c","d","e","f","g","h","i","j","k","l","m",
      "n","o","p","q","r","s","t","u","v","w","x","y","z">>

UpperSeq ==
    <<"A","B","C","D","E","F","G","H","I","J","K","L","M",
      "N","O","P","Q","R","S","T","U","V","W","X","Y","Z">>

Digits == {"0","1","2","3","4","5","6","7","8","9"}

LowerLetters == { LowerSeq[i] : i \in 1..26 }

UpperLetters == { UpperSeq[i] : i \in 1..26 }

IsLower(c) == c \in LowerLetters

IsUpper(c) == c \in UpperLetters

IsAlpha(c) == IsLower(c) \/ IsUpper(c)

\* \s of the re module and the characters str.strip() removes
IsSpace(c) == c \in {" ", "\n", "\t"}

\* \w of the re module
IsWordChar(c) == IsAlpha(c) \/ c \in Digits \/ c = "_"

UpperOf == [c \in LowerLetters |-> UpperSeq[CHOOSE i \in 1..26 : LowerSeq[i] = c]]

LowerOf == [c \in UpperLetters |-> LowerSeq[CHOOSE i \in 1..26 : UpperSeq[i] = c]]

UpperChar(c) == IF IsLower(c) THEN UpperOf[c] ELSE c

LowerChar(c) == IF IsUpper(c) THEN LowerOf[c] ELSE c

\* str.upper() / str.lower()
Upper(s) == [i \in 1..Len(s) |-> UpperChar(s[i])]

Lower(s) == [i \in 1..Len(s) |-> LowerChar(s[i])]

(***************************************************************************)
(* Strings                                                                 *)
(***************************************************************************)
\* s[i:]  (i is 1-based here)
From(s, i) == SubSeq(s, i, Len(s))

\* s.startswith(p, at position i)
MatchAt(s, i, p) ==
    /\ i >= 1
    /\ i + Len(p) - 1 <= Len(s)
    /\ \A k \in 1..Len(p) : s[i + k - 1] = p[k]

\* the same with the letter case ignored (re.I, or .upper() / .lower() first)
MatchAtNoCase(s, i, p) ==
    /\ i >= 1
    /\ i + Len(p) - 1 <= Len(s)
    /\ \A k \in 1..Len(p) : UpperChar(s[i + k - 1]) = UpperChar(p[k])

StartsWith(s, p) == MatchAt(s, 1, p)

EndsWith(s, p) == Len(p) <= Len(s) /\ MatchAt(s, Len(s) - Len(p) + 1, p)

\* p in s
Contains(s, p) == \E i \in 1..(Len(s) + 1) : MatchAt(s, i, p)

\* str.lstrip()
LStrip(s) ==
    IF \A i \in 1..Len(s) : IsSpace(s[i]) THEN <<>>
    ELSE From(s, CHOOSE i \in 1..Len(s) :
                    /\ ~IsSpace(s[i])
                    /\ \A j \in 1..(i - 1) : IsSpace(s[j]))

\* str.rstrip()
RStrip(s) ==
    IF \A i \in 1..Len(s) : IsSpace(s[i]) THEN <<>>
    ELSE SubSeq(s, 1, CHOOSE i \in 1..Len(s) :
                    /\ ~IsSpace(s[i])
                    /\ \A j \in (i + 1)..Len(s) : IsSpace(s[j]))

\* str.strip()
Strip(s) == LStrip(RStrip(s))

\* the texts made of at most n tokens of T, concatenated
RECURSIVE Join(_)
Join(ts) == IF ts = <<>> THEN <<>> ELSE Head(ts) \o Join(Tail(ts))

TextsOf(T, n) == { Join(ts) : ts \in UNION { [1..k -> T] : k \in 0..n } }

(***************************************************************************)
(* Pipeline Factory/app.py: normalize_sql_for_validation                   *)
(***************************************************************************)
\* The backquote character (a TLA+ string cannot hold it, so it has a name).
BQ == "BACKQUOTE"

\* three backquotes: a code fence
FENCE == <<BQ, BQ, BQ>>

\* re.sub(r"^```[a-zA-Z]*\s*", "", s)
SubLeadingFence(s) ==
    IF ~StartsWith(s, FENCE) THEN s
    ELSE LET afterTag(i) == \A j \in 4..(i - 1) : IsAlpha(s[j])
             \* first position after the greedy [a-zA-Z]*
             t == CHOOSE i \in 4..(Len(s) + 1) :
                    /\ afterTag(i)
                    /\ (i = Len(s) + 1 \/ ~IsAlpha(s[i]))
         IN LStrip(From(s, t))

\* re.sub(r"```\s*$", "", s): the leftmost fence followed by white space only
SubTrailingFence(s) ==
    LET hit(i) == /\ MatchAt(s, i, FENCE)
                  /\ \A j \in (i + 3)..Len(s) : IsSpace(s[j])
    IN IF \E i \in 1..Len(s) : hit(i)
       THEN SubSeq(s, 1, (CHOOSE i \in 1..Len(s) :
                            hit(i) /\ \A j \in 1..(i - 1) : ~hit(j)) - 1)
       ELSE s

\* DropOneSemicolon with the trailing semicolon left in place
Mutant_DropOneSemicolon(s) == s

\* if s.endswith(";"): s = s[:-1]
DropOneSemicolon(s) ==
    IF EndsWith(s, <<";">>) THEN SubSeq(s, 1, Len(s) - 1) ELSE s

normalize_sql_for_validation(sql_text) ==
    Strip(DropOneSemicolon(Strip(SubTrailingFence(SubLeadingFence(Strip(sql_text))))))

(***************************************************************************)
(* Specification SpecNormalize: normalize_sql_for_validation applied once  *)
(* and applied again to its own result.                                    *)
(***************************************************************************)
MaxNormTokens == 4

NormTokens == { FENCE, <<"s","q","l">>, <<" ">>, <<";">>, <<"1">> }

NormInputs == TextsOf(NormTokens, MaxNormTokens)

InitNormalize ==
    /\ sql_in \in NormInputs
    /\ stmt = <<>>
    /\ op = "none"
    /\ arg = <<>>
    /\ out = <<>>
    /\ LoopIdle

Normalize ==
    /\ op = "none"
    /\ op' = "normalize"
    /\ arg' = sql_in
    /\ out' = normalize_sql_for_validation(sql_in)
    /\ UNCHANGED <<sql_in, stmt, loopVars>>

NormalizeAgain ==
    /\ op = "normalize"
    /\ op' = "normalize_twice"
    /\ arg' = out
    /\ out' = normalize_sql_for_validation(out)
    /\ UNCHANGED <<sql_in, stmt, loopVars>>

NextNormalize == Normalize \/ NormalizeAgain

SpecNormalize == InitNormalize /\ [][NextNormalize]_vars

(***************************************************************************)
(* C9                                                                      *)
(***************************************************************************)
\* a layer normalize_sql_for_validation would still remove from s
LayerLeft(s) ==
    \/ StartsWith(s, FENCE)
    \/ EndsWith(s, FENCE)
    \/ EndsWith(s, <<";">>)

\* C9 as stated: normalising the normalised text changes nothing, for every
\* input, several fences and several trailing semicolons included.
C9_Idempotent == op = "normalize_twice" => out = arg

\* C9 amended: one application removes one layer.  The second application
\* returns the first result unchanged exactly when that result no longer
\* starts with a code fence and no longer ends with a code fence or a
\* semicolon.
C9_IdempotentOnceLayersAreGone ==
    op = "normalize_twice" => ((out = arg) <=> ~LayerLeft(arg))

\* a fenced text with one trailing semicolon was normalised twice and the
\* second call had nothing left to remove
C9_Witness ==
    /\ op = "normalize_twice"
    /\ StartsWith(sql_in, FENCE)
    /\ Contains(sql_in, <<";">>)
    /\ arg = <<"1">>
    /\ out = arg

(***************************************************************************)
(* The read-only checks                                                    *)
(***************************************************************************)
\* Pipeline Factory/app.py, enforce_read_only: the list `prohibited`
PF_prohibited ==
    << <<" ","I","N","S","E","R","T"," ">>,
       <<" ","U","P","D","A","T","E"," ">>,
       <<" ","D","E","L","E","T","E"," ">>,
       <<" ","M","E","R","G","E"," ">>,
       <<" ","T","R","U","N","C","A","T","E"," ">>,
       <<" ","C","R","E","A","T","E"," ">>,
       <<" ","A","L","T","E","R"," ">>,
       <<" ","D","R","O","P"," ">>,
       <<" ","G","R","A","N","T"," ">>,
       <<" ","R","E","V","O","K","E"," ">>,
       <<" ","C","O","P","Y"," ">>,
       <<" ","C","A","L","L"," ">>,
       <<" ","U","S","E"," ">>,
       <<" ","S","E","T"," ">> >>

\* s = " " + (sql_text or "").upper() + " "; not any(tok in s for tok in prohibited)
PF_enforce_read_only(sql_text) ==
    LET s == <<" ">> \o Upper(sql_text) \o <<" ">>
    IN ~ \E k \in 1..Len(PF_prohibited) : Contains(s, PF_prohibited[k])

\* apps/streamlit/snowflake_utils.py: the alternatives of READ_ONLY_PATTERN
READ_ONLY_PATTERN ==
    << <<"i","n","s","e","r","t">>,
       <<"u","p","d","a","t","e">>,
       <<"d","e","l","e","t","e">>,
       <<"m","e","r","g","e">>,
       <<"c","r","e","a","t","e">>,
       <<"a","l","t","e","r">>,
       <<"d","r","o","p">>,
       <<"t","r","u","n","c","a","t","e">>,
       <<"g","r","a","n","t">>,
       <<"r","e","v","o","k","e">>,
       <<"c","a","l","l">> >>

\* \b<w>\b matches s at i, letter case ignored (re.I)
WordAt(s, i, w) ==
    /\ MatchAtNoCase(s, i, w)
    /\ (i = 1 \/ ~IsWordChar(s[i - 1]))
    /\ (i + Len(w) > Len(s) \/ ~IsWordChar(s[i + Len(w)]))

\* READ_ONLY_PATTERN.search(sql_text) is None
SU_enforce_read_only(sql_text) ==
    ~ \E k \in 1..Len(READ_ONLY_PATTERN) :
        \E i \in 1..Len(sql_text) : WordAt(sql_text, i, READ_ONLY_PATTERN[k])

\* apps/streamlit/app.py
PROHIBITED_TOKENS ==
    << <<" ","u","s","e"," ">>,
       <<" ","s","e","t"," ">>,
       <<" ","c","r","e","a","t","e"," ">>,
       <<" ","a","l","t","e","r"," ">>,
       <<" ","d","r","o","p"," ">>,
       <<" ","g","r","a","n","t"," ">>,
       <<" ","r","e","v","o","k","e"," ">>,
       <<" ","c","a","l","l"," ">>,
       <<" ","c","o","p","y"," ">>,
       <<" ","i","n","s","e","r","t"," ">>,
       <<" ","u","p","d","a","t","e"," ">>,
       <<" ","d","e","l","e","t","e"," ">>,
       <<" ","m","e","r","g","e"," ">>,
       <<" ","t","r","u","n","c","a","t","e"," ">> >>

kw_select == <<"s","e","l","e","c","t">>

kw_with == <<"w","i","t","h">>

\* validate_pipeline_sql returns (ok, message)
validate_pipeline_sql(sql_text) ==
    LET s == Strip(sql_text)
        s_lower == <<" ">> \o Lower(s) \o <<" ">>
        found == { k \in 1..Len(PROHIBITED_TOKENS) : Contains(s_lower, PROHIBITED_TOKENS[k]) }
    IN IF s = <<>> THEN <<FALSE, "SQL is empty">>
       ELSE IF Contains(s_lower, <<";">>)
            THEN <<FALSE, "Only a single statement without semicolons is allowed">>
       ELSE IF ~(StartsWith(Lower(LStrip(s)), kw_select) \/ StartsWith(Lower(LStrip(s)), kw_with))
            THEN <<FALSE, "SQL must start with SELECT or WITH">>
       ELSE IF found # {}
            THEN <<FALSE, <<"Unsupported token found", 
                            Strip(PROHIBITED_TOKENS[CHOOSE k \in found : \A j \in found : k <= j])>> >>
       ELSE <<TRUE, "">>

(***************************************************************************)
(* Specification SpecReadOnly: each read-only check applied to a text      *)
(* <left><word><right>.                                                    *)
(***************************************************************************)
ForbiddenWords ==
    << <<"I","N","S","E","R","T">>,
       <<"U","P","D","A","T","E">>,
       <<"D","E","L","E","T","E">>,
       <<"M","E","R","G","E">>,
       <<"C","R","E","A","T","E">>,
       <<"A","L","T","E","R">>,
       <<"D","R","O","P">>,
       <<"T","R","U","N","C","A","T","E">>,
       <<"G","R","A","N","T">>,
       <<"R","E","V","O","K","E">>,
       <<"C","O","P","Y">>,
       <<"C","A","L","L">>,
       <<"U","S","E">>,
       <<"S","E","T">> >>

\* what stands before the word
RO_Left ==
    { <<>>,
      <<" ">>,
      <<"\n">>,
      <<"\t">>,
      <<"(">>,
      <<";">>,
      <<"S","E","L","E","C","T"," ","1",";"," ">>,
      <<"S","E","L","E","C","T"," ","1",";">>,
      <<"S","E","L","E","C","T"," ","1","\n">>,
      <<"s","e","l","e","c","t"," ","(">> }

\* the forbidden words in other letter cases, and identifiers that contain one
RO_OtherWords ==
    { <<"u","s","e">>,
      <<"D","r","o","p">>,
      <<"s","E","t">>,
      <<"c","o","p","y">>,
      <<"I","n","s","e","r","t">>,
      <<"U","S","E","R","_","I","D">>,
      <<"C","R","E","A","T","E","D","_","A","T">>,
      <<"O","F","F","S","E","T">>,
      <<"S","E","T","T","L","E","M","E","N","T">>,
      <<"T">> }

RO_Words == { ForbiddenWords[k] : k \in 1..Len(ForbiddenWords) } \cup RO_OtherWords

\* what stands after the word
RO_Right ==
    { <<>>,
      <<" ">>,
      <<"\n">>,
      <<"\t">>,
      <<")">>,
      <<";">>,
      <<" ","D","B">>,
      <<" ","F","R","O","M"," ","T">> }

\* the two texts of the specification's example
RO_Examples ==
    { <<"S","E","L","E","C","T"," ","U","S","E","R","_","I","D"," ","F","R","O","M"," ","T">>,
      <<"S","E","L","E","C","T"," ","1",";"," ","U","S","E"," ","D","B">> }

RO_Inputs == { l \o w \o r : l \in RO_Left, w \in RO_Words, r \in RO_Right } \cup RO_Examples

InitReadOnly ==
    /\ sql_in \in RO_Inputs
    /\ stmt = <<>>
    /\ op = "none"
    /\ arg = <<>>
    /\ out = <<>>
    /\ LoopIdle

Call_PF_enforce_read_only ==
    /\ op' = "PF_enforce_read_only"
    /\ arg' = sql_in
    /\ out' = PF_enforce_read_only(sql_in)
    /\ UNCHANGED <<sql_in, stmt, loopVars>>

Call_SU_enforce_read_only ==
    /\ op' = "SU_enforce_read_only"
    /\ arg' = sql_in
    /\ out' = SU_enforce_read_only(sql_in)
    /\ UNCHANGED <<sql_in, stmt, loopVars>>

Call_validate_pipeline_sql ==
    /\ op' = "validate_pipeline_sql"
    /\ arg' = sql_in
    /\ out' = validate_pipeline_sql(sql_in)
    /\ UNCHANGED <<sql_in, stmt, loopVars>>

NextReadOnly ==
    \/ Call_PF_enforce_read_only
    \/ Call_SU_enforce_read_only
    \/ Call_validate_pipeline_sql

SpecReadOnly == InitReadOnly /\ [][NextReadOnly]_vars

(***************************************************************************)
(* C5, C6                                                                  *)
(***************************************************************************)
\* one of the fourteen forbidden words stands in s as a whole word, in any
\* letter case: the characters next to it, if any, are not word characters
HasForbiddenWord(s) ==
    \E k \in 1..Len(ForbiddenWords) :
        \E i \in 1..Len(s) : WordAt(s, i, ForbiddenWords[k])

\* the verdict of the last read-only check: TRUE when it accepted the text
Accepted ==
    IF op = "validate_pipeline_sql" THEN out[1] ELSE out

ReadOnlyOps == {"PF_enforce_read_only", "SU_enforce_read_only", "validate_pipeline_sql"}

\* C5: each implementation of the read-only check rejects every text that
\* holds a forbidden word as a whole word, whatever its letter case and
\* whatever delimits it.
C5_RejectsEveryForbiddenWord ==
    (op \in ReadOnlyOps /\ HasForbiddenWord(arg)) => ~Accepted

\* C6: enforce_read_only accepts "SELECT USER_ID FROM T", rejects
\* "SELECT 1; USE DB", never rejects a text whose forbidden words are only
\* parts of longer identifiers, and rejects when the word stands alone.
C6_WordBoundary ==
    op \in {"PF_enforce_read_only", "SU_enforce_read_only"}
        => (Accepted <=> ~HasForbiddenWord(arg))

(***************************************************************************)
(* The single-statement checks                                             *)
(***************************************************************************)
KW_SELECT == <<"S","E","L","E","C","T">>

KW_WITH == <<"W","I","T","H">>

\* s[:n]
Prefix(s, n) == SubSeq(s, 1, IF n < Len(s) THEN n ELSE Len(s))

\* PF_is_single_select without its test for a remaining semicolon
Mutant_PF_is_single_select(sql_text) ==
    LET s == normalize_sql_for_validation(sql_text)
        head == Upper(Prefix(LStrip(s), 6))
    IN IF s = <<>> THEN FALSE
       ELSE StartsWith(head, KW_SELECT) \/ Upper(Prefix(LStrip(s), 4)) = KW_WITH

\* Pipeline Factory/app.py
PF_is_single_select(sql_text) ==
    LET s == normalize_sql_for_validation(sql_text)
        head == Upper(Prefix(LStrip(s), 6))
    IN IF s = <<>> THEN FALSE
       ELSE IF Contains(s, <<";">>) THEN FALSE
       ELSE StartsWith(head, KW_SELECT) \/ Upper(Prefix(LStrip(s), 4)) = KW_WITH

\* apps/streamlit/snowflake_utils.py.  sqlparse is a library: one_select is
\* its verdict, len(sqlparse.parse(sql_text)) == 1 and get_type() == "SELECT".
SU_is_single_select(sql_text, one_select) ==
    one_select /\ ~Contains(sql_text, <<";">>)

(***************************************************************************)
(* Specification SpecSelect: the single-statement checks applied to texts  *)
(* with semicolons inside and outside quotes.                              *)
(***************************************************************************)
MaxSelTokens == 4

SelTokens ==
    { <<"S","E","L","E","C","T"," ">>,
      <<"1">>,
      <<";">>,
      <<"'">>,
      <<"\"">>,
      <<" ">> }

SelInputs == TextsOf(SelTokens, MaxSelTokens)

InitSelect ==
    /\ sql_in \in SelInputs
    /\ stmt = <<>>
    /\ op = "none"
    /\ arg = <<>>
    /\ out = <<>>
    /\ LoopIdle

Call_PF_is_single_select ==
    /\ op' = "PF_is_single_select"
    /\ arg' = sql_in
    /\ out' = PF_is_single_select(sql_in)
    /\ UNCHANGED <<sql_in, stmt, loopVars>>

Call_SU_is_single_select ==
    /\ \E one_select \in BOOLEAN :
          out' = SU_is_single_select(sql_in, one_select)
    /\ op' = "SU_is_single_select"
    /\ arg' = sql_in
    /\ UNCHANGED <<sql_in, stmt, loopVars>>

NextSelect ==
    \/ Call_PF_is_single_select
    \/ Call_SU_is_single_select
    \/ Call_validate_pipeline_sql

SpecSelect == InitSelect /\ [][NextSelect]_vars

(***************************************************************************)
(* C7                                                                      *)
(***************************************************************************)
\* The quoting state after the first i characters of s: "code" outside
\* quotes, "single" inside '...', "double" inside a quoted identifier,
\* "dollar" inside $$...$$.  A doubled ' inside a string leaves and enters
\* the string again, so it stays inside.
RECURSIVE QuoteState(_, _)
QuoteState(s, i) ==
    IF i = 0 THEN "code"
    ELSE LET q == QuoteState(s, i - 1)
             c == s[i]
             dollars == c = "$" /\ i > 1 /\ s[i - 1] = "$"
         IN CASE q = "code" /\ c = "'" -> "single"
              [] q = "code" /\ c = "\"" -> "double"
              [] q = "code" /\ dollars -> "dollar"
              [] q = "single" /\ c = "'" -> "code"
              [] q = "double" /\ c = "\"" -> "code"
              [] q = "dollar" /\ dollars -> "code"
              [] OTHER -> q

\* the parenthesis depth after the first i characters, quoted text skipped
RECURSIVE ParenDepth(_, _)
ParenDepth(s, i) ==
    IF i = 0 THEN 0
    ELSE ParenDepth(s, i - 1)
         + (IF QuoteState(s, i - 1) # "code" THEN 0
            ELSE IF s[i] = "(" THEN 1 ELSE IF s[i] = ")" THEN -1 ELSE 0)

\* a semicolon outside quoted regions at parenthesis depth <= 0
HasTopLevelSemicolon(s) ==
    \E i \in 1..Len(s) :
        /\ s[i] = ";"
        /\ QuoteState(s, i - 1) = "code"
        /\ ParenDepth(s, i - 1) <= 0

\* the classifier's normalization: trim, drop one trailing semicolon
ClassifierNormalize(s) == Strip(DropOneSemicolon(Strip(s)))

\* the head test of the code: the text starts with the letters SELECT or WITH
HeadLooksSelect(s) ==
    StartsWith(Upper(LStrip(s)), KW_SELECT) \/ StartsWith(Upper(LStrip(s)), KW_WITH)

MSG_MULTI == "Only a single statement without semicolons is allowed"

\* C7 as stated: after normalization the check fails for a semicolon exactly
\* when one remains outside quotes at top level: an accepted text has none,
\* and a text whose remaining semicolons are all quoted is not rejected as
\* several statements.
C7_FailsExactlyOnTopLevelSemicolon ==
    LET n == ClassifierNormalize(arg)
    IN /\ op = "PF_is_single_select" =>
            /\ out => ~HasTopLevelSemicolon(n)
            /\ (n # <<>> /\ HeadLooksSelect(n) /\ ~HasTopLevelSemicolon(n)) => out
       /\ op = "validate_pipeline_sql" =>
            /\ out[1] => ~HasTopLevelSemicolon(n)
            /\ (n # <<>> /\ ~HasTopLevelSemicolon(n)) => out[2] # MSG_MULTI

\* C7 amended: the checks reject every text in which any semicolon is left,
\* quoted or not.  is_single_select of the Pipeline Factory accepts only a
\* text with no semicolon left after normalize_sql_for_validation, and so
\* rejects a text whose only remaining semicolon is inside a quoted literal
\* or identifier; validate_pipeline_sql and is_single_select of
\* snowflake_utils drop no trailing semicolon and accept only a text with
\* no semicolon anywhere.
C7_RejectsAnyRemainingSemicolon ==
    /\ op = "PF_is_single_select" =>
          (Contains(normalize_sql_for_validation(arg), <<";">>) => ~out)
    /\ op = "SU_is_single_select" => (Contains(arg, <<";">>) => ~out)
    /\ op = "validate_pipeline_sql" =>
          (Contains(arg, <<";">>) => out = <<FALSE, MSG_MULTI>>)

\* SELECT ';' was checked: its only semicolon is inside a string literal and
\* is_single_select rejected it
C7_Witness ==
    /\ op = "PF_is_single_select"
    /\ arg = <<"S","E","L","E","C","T"," ","'",";","'">>
    /\ ~HasTopLevelSemicolon(ClassifierNormalize(arg))
    /\ out = FALSE

(***************************************************************************)
(* Specification SpecClassify: the statement classifiers applied to texts  *)
(* <lead><first word><tail>.                                               *)
(***************************************************************************)
\* what stands before the first word: nothing, white space, a comment
CL_Lead ==
    { <<>>,
      <<" ">>,
      <<"\n">>,
      <<"-","-","c","\n">>,
      <<"/","*","c","*","/"," ">> }

CL_Head ==
    { <<"S","E","L","E","C","T">>,
      <<"s","e","l","e","c","t">>,
      <<"W","i","t","h">>,
      <<"W","I","T","H">>,
      <<"S","E","L","E","C","T","E","D">>,
      <<"W","I","T","H","O","U","T">>,
      <<"w","i","t","h","d","r","a","w">>,
      <<"S","E","L","E","C","T","I","O","N">>,
      <<"I","N","S","E","R","T">>,
      <<"S","E","L">>,
      <<"(","S","E","L","E","C","T">> }

CL_Tail ==
    { <<>>,
      <<" ","1">>,
      <<" ","x"," ","A","S"," ","(","S","E","L","E","C","T"," ","1",")"," ","S","E","L","E","C","T"," ","1">>,
      <<"\n","*">>,
      <<"(","1",")">> }

CL_Inputs == { l \o h \o t : l \in CL_Lead, h \in CL_Head, t \in CL_Tail }

InitClassify ==
    /\ sql_in \in CL_Inputs
    /\ stmt = <<>>
    /\ op = "none"
    /\ arg = <<>>
    /\ out = <<>>
    /\ LoopIdle

NextClassify ==
    \/ Call_PF_is_single_select
    \/ Call_validate_pipeline_sql

SpecClassify == InitClassify /\ [][NextClassify]_vars

(***************************************************************************)
(* C8                                                                      *)
(***************************************************************************)
\* the first position of s at or after i that holds c followed by d
\* (Len(s) + 1 if there is none)
FindPair(s, i, c, d) ==
    IF \E j \in i..(Len(s) - 1) : s[j] = c /\ s[j + 1] = d
    THEN CHOOSE j \in i..(Len(s) - 1) :
            /\ s[j] = c /\ s[j + 1] = d
            /\ \A k \in i..(j - 1) : ~(s[k] = c /\ s[k + 1] = d)
    ELSE Len(s) + 1

\* the first position of s at or after i that holds c (Len(s) + 1 if none)
FindChar(s, i, c) ==
    IF \E j \in i..Len(s) : s[j] = c
    THEN CHOOSE j \in i..Len(s) : s[j] = c /\ \A k \in i..(j - 1) : s[k] # c
    ELSE Len(s) + 1

\* s without its leading white space and comments (-- to the end of the
\* line, /* to */)
RECURSIVE StripLeadingComments(_)
StripLeadingComments(s) ==
    IF s = <<>> THEN s
    ELSE IF IsSpace(s[1]) THEN StripLeadingComments(Tail(s))
    ELSE IF StartsWith(s, <<"-", "-">>)
         THEN StripLeadingComments(From(s, FindChar(s, 1, "\n") + 1))
    ELSE IF StartsWith(s, <<"/", "*">>)
         THEN StripLeadingComments(From(s, FindPair(s, 3, "*", "/") + 2))
    ELSE s

\* the first token of s: its longest prefix of word characters
FirstWord(s) ==
    IF \A i \in 1..Len(s) : IsWordChar(s[i]) THEN s
    ELSE SubSeq(s, 1, (CHOOSE i \in 1..Len(s) :
                          /\ ~IsWordChar(s[i])
                          /\ \A j \in 1..(i - 1) : IsWordChar(s[j])) - 1)

FirstTokenIsSelectOrWith(s) ==
    Upper(FirstWord(StripLeadingComments(s))) \in {KW_SELECT, KW_WITH}

StartsWithComment(s) ==
    StartsWith(LStrip(s), <<"-", "-">>) \/ StartsWith(LStrip(s), <<"/", "*">>)

\* C8: the classifier accepts a text only if its first token, leading
\* comments stripped and letter case ignored, is exactly SELECT or WITH
\* (SELECTED, WITHOUT, WITHDRAW are rejected), and it accepts a SELECT or
\* WITH that follows a comment.
C8_FirstTokenExactlySelectOrWith ==
    op \in {"PF_is_single_select", "validate_pipeline_sql"} =>
        /\ Accepted => FirstTokenIsSelectOrWith(arg)
        /\ (StartsWithComment(arg) /\ FirstTokenIsSelectOrWith(arg)) => Accepted

(***************************************************************************)
(* src/app.py: extract_table_aliases                                       *)
(***************************************************************************)
\* [A-Za-z_]
IsIdentStart(c) == IsAlpha(c) \/ c = "_"

\* [\w$]
IsIdentChar(c) == IsWordChar(c) \/ c = "$"

\* the first position at or after i whose character is no white space
SkipSpaces(s, i) ==
    IF \A j \in i..Len(s) : IsSpace(s[j]) THEN Len(s) + 1
    ELSE CHOOSE j \in i..Len(s) :
            ~IsSpace(s[j]) /\ \A k \in i..(j - 1) : IsSpace(s[k])

\* the first position at or after i whose character is not of [\w$]
SkipIdentChars(s, i) ==
    IF \A j \in i..Len(s) : IsIdentChar(s[j]) THEN Len(s) + 1
    ELSE CHOOSE j \in i..Len(s) :
            ~IsIdentChar(s[j]) /\ \A k \in i..(j - 1) : IsIdentChar(s[k])

\* (?:"[^"]+"|[A-Za-z_][\w$]*) tried at p: the position after the match,
\* 0 if there is none
SegmentEnd(s, p) ==
    IF p > Len(s) THEN 0
    ELSE IF s[p] = "\""
         THEN LET q == FindChar(s, p + 1, "\"")
              IN IF q <= Len(s) /\ q > p + 1 THEN q + 1 ELSE 0
    ELSE IF IsIdentStart(s[p]) THEN SkipIdentChars(s, p + 1)
    ELSE 0

\* one more (?:\.<segment>) tried at e: the position after it, e if none
DotSegmentEnd(s, e) ==
    IF e <= Len(s) /\ s[e] = "." /\ SegmentEnd(s, e + 1) # 0
    THEN SegmentEnd(s, e + 1) ELSE e

\* <segment>(?:\.<segment>){0,2} tried at p: the position after it, 0 if none
PathEnd(s, p) ==
    IF SegmentEnd(s, p) = 0 THEN 0
    ELSE DotSegmentEnd(s, DotSegmentEnd(s, SegmentEnd(s, p)))

KW_FROM == <<"F","R","O","M">>

KW_JOIN == <<"J","O","I","N">>

KW_AS == <<"A","S">>

\* \b(FROM|JOIN)\s+ tried at i: the position after the white space, 0 if
\* there is no match
FromJoinEnd(s, i) ==
    IF /\ (i = 1 \/ ~IsWordChar(s[i - 1]))
       /\ (MatchAtNoCase(s, i, KW_FROM) \/ MatchAtNoCase(s, i, KW_JOIN))
       /\ i + 4 <= Len(s)
       /\ IsSpace(s[i + 4])
    THEN SkipSpaces(s, i + 4) ELSE 0

\* (?:AS\s+)? tried at p: the position after it
OptionalAsEnd(s, p) ==
    IF MatchAtNoCase(s, p, KW_AS) /\ p + 2 <= Len(s) /\ IsSpace(s[p + 2])
    THEN SkipSpaces(s, p + 2) ELSE p

\* The match of the pattern of extract_table_aliases that starts at i:
\* [found, ident (group 2), alias (group 3 or 4), end (first position after
\* the match)].
AliasMatchAt(s, i) ==
    LET nomatch == [found |-> FALSE, ident |-> <<>>, alias |-> <<>>, end |-> i]
    IN TheOne({
        IF p = 0 THEN nomatch
        ELSE TheOne({
            IF e = 0 THEN nomatch
            ELSE TheOne({
                TheOne({
                    [found |-> TRUE,
                     ident |-> SubSeq(s, p, e - 1),
                     alias |-> IF ae = 0 THEN <<>>
                               ELSE IF s[a] = "\"" THEN SubSeq(s, a + 1, ae - 2)
                               ELSE SubSeq(s, a, ae - 1),
                     end |-> IF ae = 0 THEN a ELSE ae] :
                    ae \in {SegmentEnd(s, a)} }) :
                a \in {OptionalAsEnd(s, SkipSpaces(s, e))} }) :
            e \in {PathEnd(s, p)} }) :
        p \in {FromJoinEnd(s, i)} })

\* s.replace('"', '')
RECURSIVE RemoveQuotes(_)
RemoveQuotes(s) ==
    IF s = <<>> THEN <<>>
    ELSE IF Head(s) = "\"" THEN RemoveQuotes(Tail(s))
    ELSE <<Head(s)>> \o RemoveQuotes(Tail(s))

\* s.split('.')[-1]
LastDotPart(s) ==
    IF \A i \in 1..Len(s) : s[i] # "." THEN s
    ELSE From(s, (CHOOSE i \in 1..Len(s) :
                    s[i] = "." /\ \A j \in (i + 1)..Len(s) : s[j] # ".") + 1)

\* A dict is the sequence of its <<key, value>> items in insertion order.
DictHas(d, k) == \E i \in 1..Len(d) : d[i][1] = k

DictGet(d, k) == d[CHOOSE i \in 1..Len(d) : d[i][1] = k][2]

\* d[k] = v
DictSet(d, k, v) ==
    IF DictHas(d, k)
    THEN [i \in 1..Len(d) |-> IF d[i][1] = k THEN <<k, v>> ELSE d[i]]
    ELSE Append(d, <<k, v>>)

\* the body of the for loop of extract_table_aliases for one match
BindAlias(aliases, m) ==
    IF Strip(m.ident) = <<>> THEN aliases
    ELSE TheOne({ IF alias # <<>> THEN DictSet(aliases, RemoveQuotes(alias), base)
                  ELSE DictSet(aliases, base, base) :
                    base \in {RemoveQuotes(LastDotPart(Strip(m.ident)))},
                    alias \in {Strip(m.alias)} })

\* pattern.finditer(sql_text) from position i on, folded into the dict
RECURSIVE ScanAliases(_, _, _)
ScanAliases(s, i, aliases) ==
    TheOne({
        IF starts = {} THEN aliases
        ELSE TheOne({ ScanAliases(s, m.end, BindAlias(aliases, m)) :
                        m \in {AliasMatchAt(s, First(starts))} }) :
        starts \in {{ j \in i..Len(s) : AliasMatchAt(s, j).found }} })

extract_table_aliases(sql_text) == ScanAliases(sql_text, 1, <<>>)

(***************************************************************************)
(* Specification SpecAliases: extract_table_aliases applied to statements  *)
(* SELECT * FROM <target> [JOIN <target> ON ...]... <tail>.                *)
(***************************************************************************)
MaxTargets == 2

T_ORDERS == <<"O","R","D","E","R","S">>

T_CUSTOMERS == <<"C","U","S","T","O","M","E","R","S">>

\* A FROM/JOIN target: its table, how the path is written (bare: ORDERS,
\* dotted: A.B.ORDERS, quoted: "A"."B"."ORDERS") and how its alias is
\* written (none, bare: ORDERS o, as: ORDERS AS o).
Targets ==
    [table : {T_ORDERS, T_CUSTOMERS},
     path : {"bare", "dotted", "quoted"},
     aliasForm : {"none", "bare", "as"}]

\* the alias of the k-th target, when it has one
AliasName(k) == << <<"o">>, <<"c">>, <<"x">>, <<"y">> >>[k]

StmtTails ==
    { <<>>,
      <<" ","W","H","E","R","E"," ","o",".","i","d"," ","="," ","1">>,
      <<" ","O","R","D","E","R"," ","B","Y"," ","c",".","N","A","M","E">> }

Stmts ==
    [targets : UNION { [1..n -> Targets] : n \in 1..MaxTargets },
     tail : StmtTails]

RenderPath(t) ==
    CASE t.path = "bare" -> t.table
      [] t.path = "dotted" -> <<"A",".","B",".">> \o t.table
      [] t.path = "quoted" -> <<"\"","A","\"",".","\"","B","\"",".","\"">> \o t.table \o <<"\"">>

RenderAlias(t, k) ==
    CASE t.aliasForm = "none" -> <<>>
      [] t.aliasForm = "bare" -> <<" ">> \o AliasName(k)
      [] t.aliasForm = "as" -> <<" ","A","S"," ">> \o AliasName(k)

RenderTarget(t, k) ==
    IF k = 1 THEN <<"F","R","O","M"," ">> \o RenderPath(t) \o RenderAlias(t, k)
    ELSE <<" ","J","O","I","N"," ">> \o RenderPath(t) \o RenderAlias(t, k)
         \o <<" ","O","N"," ","o",".","c","u","s","t","o","m","e","r","_","i","d"," ","="," ","c",".","c","u","s","t","o","m","e","r","_","i","d">>

RECURSIVE RenderTargets(_, _)
RenderTargets(ts, k) ==
    IF k > Len(ts) THEN <<>>
    ELSE RenderTarget(ts[k], k) \o RenderTargets(ts, k + 1)

Render(st) == <<"S","E","L","E","C","T"," ","*"," ">> \o RenderTargets(st.targets, 1) \o st.tail

InitAliases ==
    /\ stmt \in Stmts
    /\ sql_in = Render(stmt)
    /\ op = "none"
    /\ arg = <<>>
    /\ out = <<>>
    /\ LoopIdle

Call_extract_table_aliases ==
    /\ op' = "extract_table_aliases"
    /\ arg' = sql_in
    /\ out' = extract_table_aliases(sql_in)
    /\ UNCHANGED <<sql_in, stmt, loopVars>>

NextAliases == Call_extract_table_aliases

SpecAliases == InitAliases /\ [][NextAliases]_vars

(***************************************************************************)
(* C10                                                                     *)
(***************************************************************************)
\* C10: every FROM/JOIN target written as a path of one to three segments
\* followed by an alias (bare or after AS) has its alias mapped to the simple
\* name of its table; for FROM A.B.ORDERS o JOIN A.B.CUSTOMERS c ON ... the
\* map holds o -> ORDERS and c -> CUSTOMERS.
C10_AliasMapsToBaseTable ==
    op = "extract_table_aliases" =>
        \A k \in 1..Len(stmt.targets) :
            stmt.targets[k].aliasForm # "none" =>
                /\ DictHas(out, AliasName(k))
                /\ DictGet(out, AliasName(k)) = stmt.targets[k].table

(***************************************************************************)
(* src/app.py: the text helpers of the preview loop                        *)
(***************************************************************************)
\* the truth value Python gives a text or None in an if
Truthy(x) == x # None /\ x # <<>>

\* s.replace(p, '')
RECURSIVE RemoveAll(_, _)
RemoveAll(s, p) ==
    IF s = <<>> THEN <<>>
    ELSE IF StartsWith(s, p) THEN RemoveAll(From(s, Len(p) + 1), p)
    ELSE <<Head(s)>> \o RemoveAll(Tail(s), p)

FENCE_SQL == FENCE \o <<"s","q","l">>

\* what generate_sql_with_cortex and validate_sql_with_cortex make of the
\* completion the model returned
cleaned_response(response_data) ==
    LET cleaned == Strip(response_data)
    IN IF StartsWith(cleaned, FENCE_SQL)
       THEN Strip(RemoveAll(RemoveAll(cleaned, FENCE_SQL), FENCE))
       ELSE IF StartsWith(cleaned, FENCE) THEN Strip(RemoveAll(cleaned, FENCE))
       ELSE cleaned

\* The outcome of one call of the Cortex COMPLETE function: a completion
\* text, or CallFailed when the call raised.
CallFailed == <<"CallFailed">>

generate_sql_with_cortex(response) ==
    IF response = CallFailed THEN None ELSE cleaned_response(response)

validate_sql_with_cortex(response) ==
    IF response = CallFailed THEN None ELSE cleaned_response(response)

\* build_preview_sql
build_preview_sql(sql_text) ==
    LET s0 == Strip(sql_text)
        s == IF EndsWith(s0, <<";">>) THEN SubSeq(s0, 1, Len(s0) - 1) ELSE s0
    IN <<"\n","w","i","t","h"," ","_","_","q"," ","a","s"," ","(","\n">>
       \o s
       \o <<"\n",")","\n","s","e","l","e","c","t"," ","*"," ","f","r","o","m"," ","_","_","q"," ","l","i","m","i","t"," ","3","\n">>

\* \b at position e: between s[e - 1] and s[e]
WordBoundary(s, e) ==
    (e - 1 >= 1 /\ e - 1 <= Len(s) /\ IsWordChar(s[e - 1]))
        # (e >= 1 /\ e <= Len(s) /\ IsWordChar(s[e]))

\* '"' + name.replace('"', '""') + '"'
RECURSIVE DoubleQuotes(_)
DoubleQuotes(s) ==
    IF s = <<>> THEN <<>>
    ELSE IF Head(s) = "\"" THEN <<"\"", "\"">> \o DoubleQuotes(Tail(s))
    ELSE <<Head(s)>> \o DoubleQuotes(Tail(s))

QuoteName(name) == <<"\"">> \o DoubleQuotes(name) \o <<"\"">>

\* (?:"[^"]+"|[A-Za-z_][\w$]*)(\b) tried at q: the position after the
\* identifier, 0 if there is no match.  The greedy [\w$]* gives characters
\* back until a word boundary follows.
BoundedIdentEnd(s, q) ==
    IF q > Len(s) THEN 0
    ELSE IF s[q] = "\""
         THEN LET c == FindChar(s, q + 1, "\"")
              IN IF c <= Len(s) /\ c > q + 1 /\ WordBoundary(s, c + 1)
                 THEN c + 1 ELSE 0
    ELSE IF IsIdentStart(s[q])
         THEN TheOne({ IF ends = {} THEN 0
                       ELSE CHOOSE e \in ends : \A f \in ends : f <= e :
                        ends \in {{ e \in (q + 1)..SkipIdentChars(s, q + 1) :
                                        WordBoundary(s, e) }} })
    ELSE 0

\* The match of the pattern of qualify_sql that starts at i:
\* [found, keyword (group 1), ident (group 2), end].
QualifyMatchAt(s, i) ==
    LET nomatch == [found |-> FALSE, keyword |-> <<>>, ident |-> <<>>, end |-> i]
    IN TheOne({
        IF p = 0 THEN nomatch
        ELSE TheOne({
            IF e = 0 THEN nomatch
            ELSE [found |-> TRUE, keyword |-> SubSeq(s, i, i + 3),
                  ident |-> SubSeq(s, p, e - 1), end |-> e] :
            e \in {BoundedIdentEnd(s, IF p <= Len(s) /\ s[p] = "("
                                      THEN SkipSpaces(s, p + 1) ELSE p)} }) :
        p \in {FromJoinEnd(s, i)} })

\* repl of qualify_sql
repl(m, q_db, q_schema) ==
    IF \E ident_strip \in {Strip(m.ident)} :
          \/ StartsWith(ident_strip, <<"(">>)
          \/ StartsWith(ident_strip, <<"@">>)
          \/ Contains(ident_strip, <<".">>)
          \/ StartsWith(Lower(ident_strip), <<"t","a","b","l","e","(">>)
    THEN m.keyword \o <<" ">> \o m.ident
    ELSE m.keyword \o <<" ">> \o q_db \o <<".">> \o q_schema \o <<".">> \o m.ident

\* re.sub(pattern, repl, sql_text) from position i on
RECURSIVE QualifyFrom(_, _, _, _)
QualifyFrom(s, i, q_db, q_schema) ==
    TheOne({
        IF starts = {} THEN SubSeq(s, i, Len(s))
        ELSE TheOne({ SubSeq(s, i, First(starts) - 1)
                      \o repl(m, q_db, q_schema)
                      \o QualifyFrom(s, m.end, q_db, q_schema) :
                        m \in {QualifyMatchAt(s, First(starts))} }) :
        starts \in {{ j \in i..Len(s) : QualifyMatchAt(s, j).found }} })

qualify_sql(sql_text, database, schema) ==
    IF ~Truthy(sql_text) THEN sql_text
    ELSE QualifyFrom(sql_text, 1, QuoteName(database), QuoteName(schema))

(***************************************************************************)
(* src/app.py: ORDER BY qualifiers, join keys, auto_repair                 *)
(***************************************************************************)

\* the characters in code point order, the order sorted() compares them in
CharOrder ==
    <<"\t", "\n", " ", "!", "\"", "#", "$", "%", "&", "'", "(", ")", "*", "+",
      ",", "-", ".", "/", "0", "1", "2", "3", "4", "5", "6", "7", "8", "9",
      ":", ";", "<", "=", ">", "?", "@">>
    \o UpperSeq
    \o <<"[", "\\", "]", "^", "_", BQ>>
    \o LowerSeq
    \o <<"{", "|", "}", "~">>

OrdOf ==
    [c \in { CharOrder[i] : i \in 1..Len(CharOrder) } |->
        CHOOSE i \in 1..Len(CharOrder) : CharOrder[i] = c]

\* a < b for two Python strings
StrLess(a, b) ==
    \E k \in 1..(Len(b)) :
        /\ k - 1 <= Len(a)
        /\ \A j \in 1..(k - 1) : a[j] = b[j]
        /\ (k > Len(a) \/ OrdOf[a[k]] < OrdOf[b[k]])

\* sorted(S) for a set of strings
RECURSIVE Sorted(_)
Sorted(S) ==
    IF S = {} THEN <<>>
    ELSE LET m == CHOOSE x \in S : \A y \in S \ {x} : StrLess(x, y)
         IN <<m>> \o Sorted(S \ {m})

KW_ORDER == <<"O","R","D","E","R">>

KW_BY == <<"B","Y">>

OrderByTerminators ==
    { <<"l","i","m","i","t">>, <<"o","f","f","s","e","t">>, <<"f","e","t","c","h">> }

\* $ of the re module at position t
AtEnd(s, t) == t = Len(s) + 1 \/ (t = Len(s) /\ s[t] = "\n")

\* (?:(?:limit|offset|fetch)\b|$) tried at j: the position after it, 0 if
\* there is no match
OrderByTerminatorEnd(s, j) ==
    IF \E w \in OrderByTerminators :
            MatchAtNoCase(s, j, w) /\ WordBoundary(s, j + Len(w))
    THEN j + Len(CHOOSE w \in OrderByTerminators :
                    MatchAtNoCase(s, j, w) /\ WordBoundary(s, j + Len(w)))
    ELSE IF AtEnd(s, j) THEN j
    ELSE 0

\* The match of \border\s+by\s+(.*?)(?:(?:limit|offset|fetch)\b|$) that
\* starts at i: [found, clause (group 1), end].
OrderByMatchAt(s, i) ==
    LET nomatch == [found |-> FALSE, clause |-> <<>>, end |-> i]
    IN IF ~ /\ (i = 1 \/ ~IsWordChar(s[i - 1]))
            /\ MatchAtNoCase(s, i, KW_ORDER)
            /\ i + 5 <= Len(s)
            /\ IsSpace(s[i + 5])
       THEN nomatch
       ELSE TheOne({
                IF ~ /\ MatchAtNoCase(s, b, KW_BY)
                     /\ b + 2 <= Len(s)
                     /\ IsSpace(s[b + 2])
                THEN nomatch
                ELSE TheOne({
                        TheOne({ [found |-> TRUE, clause |-> SubSeq(s, c, j - 1),
                                  end |-> OrderByTerminatorEnd(s, j)] :
                            j \in {CHOOSE t \in c..(Len(s) + 1) :
                                    /\ OrderByTerminatorEnd(s, t) # 0
                                    /\ \A u \in c..(t - 1) :
                                            OrderByTerminatorEnd(s, u) = 0} }) :
                        c \in {SkipSpaces(s, b + 2)} }) :
                b \in {SkipSpaces(s, i + 5)} })

\* The match of <segment>\s*\.\s*<segment> that starts at k of the clause:
\* [found, left, right, end].
PairMatchAt(clause, k) ==
    LET nomatch == [found |-> FALSE, left |-> <<>>, right |-> <<>>, end |-> k]
    IN TheOne({
        IF e1 = 0 THEN nomatch
        ELSE TheOne({
            IF ~(d <= Len(clause) /\ clause[d] = ".") THEN nomatch
            ELSE TheOne({
                TheOne({
                    IF e2 = 0 THEN nomatch
                    ELSE [found |-> TRUE, left |-> SubSeq(clause, k, e1 - 1),
                          right |-> SubSeq(clause, f, e2 - 1), end |-> e2] :
                    e2 \in {SegmentEnd(clause, f)} }) :
                f \in {SkipSpaces(clause, d + 1)} }) :
            d \in {SkipSpaces(clause, e1)} }) :
        e1 \in {SegmentEnd(clause, k)} })

\* the inner finditer of extract_order_by_qualified_pairs from k on
RECURSIVE ScanPairs(_, _)
ScanPairs(clause, k) ==
    TheOne({
        IF starts = {} THEN <<>>
        ELSE TheOne({ << <<RemoveQuotes(m2.left), RemoveQuotes(m2.right)>> >>
                      \o ScanPairs(clause, m2.end) :
                        m2 \in {PairMatchAt(clause, First(starts))} }) :
        starts \in {{ j \in k..Len(clause) : PairMatchAt(clause, j).found }} })

\* the outer finditer of extract_order_by_qualified_pairs from i on
RECURSIVE ScanOrderBy(_, _)
ScanOrderBy(s, i) ==
    TheOne({
        IF starts = {} THEN <<>>
        ELSE TheOne({ ScanPairs(m.clause, 1) \o ScanOrderBy(s, m.end) :
                        m \in {OrderByMatchAt(s, First(starts))} }) :
        starts \in {{ j \in i..Len(s) : OrderByMatchAt(s, j).found }} })

\* extract_order_by_qualified_pairs with the pairs taken from the whole text
Mutant_extract_order_by_qualified_pairs(sql_text) ==
    IF ~Truthy(sql_text) THEN <<>> ELSE ScanPairs(sql_text, 1)

extract_order_by_qualified_pairs(sql_text) ==
    IF ~Truthy(sql_text) THEN <<>> ELSE ScanOrderBy(sql_text, 1)

\* the qualifiers of pairs that are neither a key nor a value of aliases
InvalidQualifiers(aliases, pairs) ==
    LET alias_keys == { Upper(aliases[i][1]) : i \in 1..Len(aliases) }
        base_values == { Upper(aliases[i][2]) : i \in 1..Len(aliases) }
    IN { pairs[i][1] : i \in { n \in 1..Len(pairs) :
            /\ Upper(pairs[n][1]) \notin alias_keys
            /\ Upper(pairs[n][1]) \notin base_values } }

find_order_by_qualifiers_not_in_from(sql_text) ==
    TheOne({ Sorted(InvalidQualifiers(aliases, pairs)) :
                aliases \in {extract_table_aliases(sql_text)},
                pairs \in {extract_order_by_qualified_pairs(sql_text)} })

\* list(dict.fromkeys(xs)): xs without its repeated items
RECURSIVE Unique(_)
Unique(xs) ==
    IF xs = <<>> THEN <<>>
    ELSE LET front == Unique(SubSeq(xs, 1, Len(xs) - 1))
             last == xs[Len(xs)]
         IN IF \E i \in 1..Len(front) : front[i] = last THEN front
            ELSE Append(front, last)

\* the values of the dict d in insertion order
DictValues(d) == [i \in 1..Len(d) |-> d[i][2]]

get_present_base_tables(sql_text) ==
    TheOne({ [i \in 1..Len(bases) |-> RemoveQuotes(bases[i])] :
                bases \in { Unique(DictValues(aliases)) :
                              aliases \in {extract_table_aliases(sql_text)} } })

is_id_like(col) ==
    LET cu == Upper(col)
    IN \/ cu = <<"I","D">>
       \/ EndsWith(cu, <<"_","I","D">>)
       \/ EndsWith(cu, <<"I","D">>)
       \/ EndsWith(cu, <<"_","K","E","Y">>)

\* PREFERRED_JOIN_KEYS: its <<(table, table), column>> items
PREFERRED_JOIN_KEYS ==
    LET drivers == <<"D","T","_","D","R","I","V","E","R","S">>
        performance == <<"D","T","_","D","R","I","V","E","R","_","P","E","R","F","O","R","M","A","N","C","E">>
        key == <<"D","r","i","v","e","r","I","D">>
    IN << << <<drivers, performance>>, key >>,
          << <<performance, drivers>>, key >> >>

\* A catalog is a function from table names to sets of column names.
\* catalog.get(table, set())
CatalogGet(catalog, table) ==
    IF table \in DOMAIN catalog THEN catalog[table] ELSE {}

\* The values lookup_preferred_join_key can return.  The dict
\* {c.upper(): c for c in <set>} keeps, for columns that differ in letter
\* case only, the one the set yields last; a set yields in no fixed order.
lookup_preferred_join_key(table_a, table_b, catalog) ==
    LET a_u == Upper(table_a)
        b_u == Upper(table_b)
    IN IF ~DictHas(PREFERRED_JOIN_KEYS, <<a_u, b_u>>) THEN {None}
       ELSE LET pref_u == Upper(DictGet(PREFERRED_JOIN_KEYS, <<a_u, b_u>>))
                in_a == { c \in CatalogGet(catalog, table_a) : Upper(c) = pref_u }
                in_b == { c \in CatalogGet(catalog, table_b) : Upper(c) = pref_u }
            IN IF in_a # {} /\ in_b # {} THEN in_a ELSE {None}

\* choose_best_join_key without "if id_like: return cols_a[id_like[0]]"
Mutant_choose_best_join_key(table_a, table_b, catalog) ==
    LET preferred == lookup_preferred_join_key(table_a, table_b, catalog)
        cols_a == CatalogGet(catalog, table_a)
        cols_b == CatalogGet(catalog, table_b)
        common == { c \in cols_a : \E d \in cols_b : Upper(d) = Upper(c) }
    IN IF \E p \in preferred : Truthy(p) THEN preferred
       ELSE IF common = {} THEN {None}
       ELSE common

\* The values choose_best_join_key can return: id_like[0] and common[0] are
\* the first items in the order the set of columns yields them.
choose_best_join_key(table_a, table_b, catalog) ==
    LET preferred == lookup_preferred_join_key(table_a, table_b, catalog)
        cols_a == CatalogGet(catalog, table_a)
        cols_b == CatalogGet(catalog, table_b)
        common == { c \in cols_a : \E d \in cols_b : Upper(d) = Upper(c) }
        id_like == { c \in common : is_id_like(Upper(c)) }
    IN IF \E p \in preferred : Truthy(p) THEN preferred
       ELSE IF common = {} THEN {None}
       ELSE IF id_like # {} THEN id_like
       ELSE common

KW_WHERE == <<"W","H","E","R","E">>

KW_GROUP == <<"G","R","O","U","P">>

KW_LIMIT == <<"L","I","M","I","T">>

\* \b<w1>\s+<w2>\b tried at t
TwoWordsAt(s, t, w1, w2) ==
    /\ (t = 1 \/ ~IsWordChar(s[t - 1]))
    /\ MatchAtNoCase(s, t, w1)
    /\ t + Len(w1) <= Len(s)
    /\ IsSpace(s[t + Len(w1)])
    /\ LET u == SkipSpaces(s, t + Len(w1))
       IN MatchAtNoCase(s, u, w2) /\ WordBoundary(s, u + Len(w2))

\* (\bwhere\b|\bgroup\s+by\b|\border\s+by\b|\blimit\b|$) tried at t
FromClauseTerminatorAt(s, t) ==
    \/ WordAt(s, t, KW_WHERE)
    \/ TwoWordsAt(s, t, KW_GROUP, KW_BY)
    \/ TwoWordsAt(s, t, KW_ORDER, KW_BY)
    \/ WordAt(s, t, KW_LIMIT)
    \/ AtEnd(s, t)

\* re.search(r"(?is)(\bfrom\s+[^\n;]+?)\s*(\bwhere\b|...|$)", sql_text)
\* finds a match
FromClauseFound(s) ==
    \E i \in 1..Len(s) :
        /\ (i = 1 \/ ~IsWordChar(s[i - 1]))
        /\ MatchAtNoCase(s, i, KW_FROM)
        /\ \E a \in (i + 5)..Len(s) :
            /\ \A j \in (i + 4)..(a - 1) : IsSpace(s[j])
            /\ \E e \in a..Len(s) :
                /\ \A j \in a..e : s[j] \notin {"\n", ";"}
                /\ \E t \in (e + 1)..(Len(s) + 1) :
                    /\ \A j \in (e + 1)..(t - 1) : IsSpace(s[j])
                    /\ FromClauseTerminatorAt(s, t)

\* str(e) of the re.error that re.search raises for the pattern
\* rf"(?i)\bjoin\s+\Q{fq_missing}\E\b": \Q is no escape of the re module
BAD_ESCAPE == "bad escape \\Q at position 13"

\* a repair that returns the text with a JOIN for each of two tables
Mutant_RepairWith(sql_text, missing_quals, present_bases, catalog) ==
    [kind |-> "return",
     value |-> sql_text \o <<" ">> \o KW_JOIN \o <<" ", "T", " ">> \o KW_JOIN
                        \o <<" ", "U">>]

\* auto_repair_missing_orderby_join from the for statement on, with the
\* values of missing_quals and present_bases
RepairWith(sql_text, missing_quals, present_bases, catalog) ==
    LET nothing == [kind |-> "return", value |-> None]
    IN IF ~ \E n \in 1..Len(present_bases) :
                \E key \in choose_best_join_key(
                                present_bases[n], missing_quals[1], catalog) :
                    Truthy(key)
       THEN nothing
       ELSE IF ~FromClauseFound(sql_text) THEN nothing
       ELSE [kind |-> "raise", error |-> BAD_ESCAPE]

\* auto_repair_missing_orderby_join: [kind |-> "return", value] when the
\* function returns, [kind |-> "raise", error] when it raises.  Every call
\* that gets as far as the search for an existing JOIN raises there, so the
\* function returns no repaired text.
auto_repair_missing_orderby_join(sql_text, database, schema, catalog) ==
    LET nothing == [kind |-> "return", value |-> None]
    IN IF ~Truthy(sql_text) THEN nothing
       ELSE TheOne({ IF missing_quals = <<>> THEN nothing
                     ELSE IF present_bases = <<>> THEN nothing
                     ELSE RepairWith(sql_text, missing_quals, present_bases, catalog) :
                        missing_quals \in {find_order_by_qualifiers_not_in_from(sql_text)},
                        present_bases \in {get_present_base_tables(sql_text)} })


(***************************************************************************)
(* src/app.py: what the readers of the catalog leave of it                 *)
(***************************************************************************)
\* catalog.setdefault(table, set()) in the place of catalog.get
Mutant_AfterGet(catalog, table) ==
    IF table \in DOMAIN catalog THEN catalog ELSE catalog @@ (table :> {})

\* the catalog after catalog.get(table, set()): get inserts nothing
AfterGet(catalog, table) == catalog

\* the catalog after choose_best_join_key(table_a, table_b, catalog), which
\* reads catalog.get(table_a, set()) and catalog.get(table_b, set())
AfterChooseBestJoinKey(catalog, table_a, table_b) ==
    AfterGet(AfterGet(catalog, table_a), table_b)

\* the catalog after "for base in present_tables: key =
\* choose_best_join_key(base, mtable, catalog); if key: ... break", from
\* the n-th table on
RECURSIVE AfterJoinKeys(_, _, _, _)
AfterJoinKeys(catalog, present_tables, mtable, n) ==
    IF n > Len(present_tables) THEN catalog
    ELSE TheOne({
            IF \E key \in choose_best_join_key(present_tables[n], mtable, catalog) :
                    Truthy(key)
            THEN after
            ELSE AfterJoinKeys(after, present_tables, mtable, n + 1) :
            after \in {AfterChooseBestJoinKey(catalog, present_tables[n], mtable)} })

\* the catalog after auto_repair_missing_orderby_join(sql_text, ..., catalog)
AfterAutoRepair(sql_text, catalog) ==
    IF ~Truthy(sql_text) THEN catalog
    ELSE TheOne({ IF missing_quals = <<>> \/ present_bases = <<>> THEN catalog
                  ELSE AfterJoinKeys(catalog, present_bases, missing_quals[1], 1) :
                    missing_quals \in {find_order_by_qualifiers_not_in_from(sql_text)},
                    present_bases \in {get_present_base_tables(sql_text)} })

\* the catalog after "for missing_table in invalid_order_qualifiers: hint =
\* suggest_join_instructions(missing_table, present, schema_catalog)", from
\* the n-th qualifier on
RECURSIVE AfterSuggestions(_, _, _, _)
AfterSuggestions(catalog, invalid_order_qualifiers, present, n) ==
    IF n > Len(invalid_order_qualifiers) THEN catalog
    ELSE AfterSuggestions(
            AfterJoinKeys(catalog, present, invalid_order_qualifiers[n], 1),
            invalid_order_qualifiers, present, n + 1)

\* the catalog after the hints of the except clause are built from sql_text
AfterJoinHints(sql_text, catalog) ==
    TheOne({ IF invalid_order_qualifiers = <<>> THEN catalog
             ELSE AfterSuggestions(catalog, invalid_order_qualifiers,
                                   get_present_base_tables(sql_text), 1) :
                invalid_order_qualifiers \in
                    {find_order_by_qualifiers_not_in_from(sql_text)} })
(***************************************************************************)
(* Specification Spec: src/app.py, main().  A run of the script starts     *)
(* with a click, goes through the preview loop when the session state      *)
(* holds a generated SQL text, renders the outcome and the "Add to         *)
(* Pipeline Factory" form, and ends.                                       *)
(***************************************************************************)
max_retries == 5

\* how many runs of the script are followed
MaxRuns == 2

selected_database == <<"D","B">>

selected_schema == <<"S","C">>

C_ID == <<"I","D">>

C_CUSTOMER_ID == <<"C","U","S","T","O","M","E","R","_","I","D">>

C_NAME == <<"N","A","M","E">>

\* what get_schema_catalog returns for a schema with the two tables
full_catalog ==
    (T_ORDERS :> {C_ID, C_CUSTOMER_ID}) @@ (T_CUSTOMERS :> {C_CUSTOMER_ID, C_NAME})

\* and for a schema that has no table CUSTOMERS
orders_catalog == (T_ORDERS :> {C_ID, C_CUSTOMER_ID})

\* the catalogs get_schema_catalog can return
FetchedCatalogs == {full_catalog, orders_catalog}

\* Completions of the model: a plain SELECT, a DDL statement, two
\* statements inside a code fence, a SELECT ordered by a column of a table
\* that is not joined, white space.
R_GOOD == <<"S","E","L","E","C","T"," ","*"," ","F","R","O","M"," ","O","R","D","E","R","S"," ","o">>

R_DDL == <<"D","R","O","P"," ","T","A","B","L","E"," ","O","R","D","E","R","S">>

R_FENCED == <<BQ,BQ,BQ,"s","q","l","\n","S","E","L","E","C","T"," ","1",";"," ","S","E","L","E","C","T"," ","2","\n",BQ,BQ,BQ>>

R_ORDER == <<"S","E","L","E","C","T"," ","*"," ","F","R","O","M"," ","O","R","D","E","R","S"," ","o"," ","O","R","D","E","R"," ","B","Y"," ","C","U","S","T","O","M","E","R","S",".","N","A","M","E">>

R_BLANK == <<" ">>

\* a SELECT of two joined tables ordered by a column written without its
\* table
R_AMBIG == <<"S","E","L","E","C","T"," ","*"," ","F","R","O","M"," ","O","R","D","E","R","S"," ","o"," ","J","O","I","N"," ","C","U","S","T","O","M","E","R","S"," ","c"," ","O","N"," ","o",".","C","U","S","T","O","M","E","R","_","I","D"," ","="," ","c",".","C","U","S","T","O","M","E","R","_","I","D"," ","O","R","D","E","R"," ","B","Y"," ","N","A","M","E">>

\* the outcomes of a call of the Cortex COMPLETE function
Responses == {R_GOOD, R_DDL, R_FENCED, R_ORDER, R_AMBIG, R_BLANK, CallFailed}

\* the fallback model is not called
NotCalled == <<"NotCalled">>

\* generate_sql_with_cortex, and qualify_sql on what it returned
Generated(response) ==
    LET sql == generate_sql_with_cortex(response)
    IN IF Truthy(sql) THEN qualify_sql(sql, selected_database, selected_schema)
       ELSE None

\* validate_sql_with_cortex, and qualify_sql on what it returned
Validated(response) ==
    LET sql == validate_sql_with_cortex(response)
    IN IF Truthy(sql) THEN qualify_sql(sql, selected_database, selected_schema)
       ELSE None

\* Generated and Validated of every response, computed once
GeneratedOf == [r \in Responses |-> Generated(r)]

ValidatedOf == [r \in Responses |-> Validated(r)]

\* the texts st.session_state['generated_sql'] can hold
Candidates ==
    ({ GeneratedOf[r] : r \in Responses } \cup { ValidatedOf[r] : r \in Responses })
        \ {None}

\* auto_repair_missing_orderby_join and build_preview_sql of every
\* candidate, computed once
RepairOf ==
    [c \in Candidates |->
        [k \in FetchedCatalogs |->
            auto_repair_missing_orderby_join(c, selected_database,
                                             selected_schema, k)]]

\* the catalog after auto_repair_missing_orderby_join, and after the join
\* hints of the except clause, for every candidate
CatalogAfterRepairOf ==
    [c \in Candidates |-> [k \in FetchedCatalogs |-> AfterAutoRepair(c, k)]]

CatalogAfterHintsOf ==
    [c \in Candidates |-> [k \in FetchedCatalogs |-> AfterJoinHints(c, k)]]

PreviewSqlOf == [c \in Candidates |-> build_preview_sql(c)]

\* the responses the fallback model can give: it is called only when the
\* primary model gave no text
FallbackOfGenerate(primary) ==
    IF GeneratedOf[primary] # None THEN {NotCalled} ELSE Responses

FallbackOfValidate(primary) ==
    IF ValidatedOf[primary] # None THEN {NotCalled} ELSE Responses

\* str(e) of an exception of session.sql(preview_sql).to_pandas()
SQL_ERROR == "SQL compilation error"

DataFrame(rows) == <<"DataFrame", rows>>

Raised(error) == <<"Exception", error>>

\* the outcomes of session.sql(preview_sql).to_pandas()
ExecutorResults == {DataFrame(0), DataFrame(3), Raised(SQL_ERROR)}

NO_ROWS == <<"No rows returned; retrying with stronger constraints.">>

REGENERATION_FAILED == "Regeneration failed"

\* "Regeneration failed after error: " + last_error
FailedAfterError(error) == <<"Regeneration failed after error: ", error>>

\* the two models of the calls to SNOWFLAKE.CORTEX.COMPLETE
PRIMARY_MODEL == "snowflake-arctic"

FALLBACK_MODEL == "mistral-large"

\* one call of the loop body: the function, the model it was given ("" when
\* it takes none) and what came back
Call(fn, model, result) == <<fn, model, result>>

\* what a call to a model gave: a text, or nothing
Gave(text) == IF text # None THEN "text" ELSE "nothing"

\* the two models asked in the opposite order
Mutant_ModelCalls(fn, texts, primary, fallback) ==
    IF texts[primary] # None
    THEN <<Call(fn, FALLBACK_MODEL, "text")>>
    ELSE <<Call(fn, FALLBACK_MODEL, "nothing"),
           Call(fn, PRIMARY_MODEL, Gave(texts[fallback]))>>

\* the calls of "primary model first, fallback model if it gave nothing":
\* texts maps each response to what fn makes of it
ModelCalls(fn, texts, primary, fallback) ==
    IF texts[primary] # None
    THEN <<Call(fn, PRIMARY_MODEL, "text")>>
    ELSE <<Call(fn, PRIMARY_MODEL, "nothing"),
           Call(fn, FALLBACK_MODEL, Gave(texts[fallback]))>>

\* what session.sql(preview_sql).to_pandas() gave
Fetched(df) ==
    IF df[1] = "Exception" THEN "raise"
    ELSE IF df[2] > 0 THEN "rows" ELSE "no rows"

Init == HelperIdle /\ LoopIdle

\* "Generate SQL" is clicked with a question: on a completion the text is
\* qualified and stored and st.rerun() starts the script again; without one
\* the same run goes on to the preview section.
ClickGenerate(response) ==
    /\ pc = "idle"
    /\ runs < MaxRuns
    /\ runs' = runs + 1
    /\ generated_sql' =
            IF GeneratedOf[response] # None THEN GeneratedOf[response]
            ELSE generated_sql
    /\ add_clicked' = FALSE
    /\ pc' = "start"
    /\ UNCHANGED <<schema_catalog, attempt, validation_messages, last_error,
                   preview_df, exc, preview_sql, previews, pipeline_config,
                   calls, repairs, helperVars, factoryVars, taskVars>>

\* Another widget is used, "Add to Pipeline Factory" (add) or any other: the
\* script runs again.  The Add button is on the page only when the session
\* state holds a generated SQL text.
ClickWidget(add) ==
    /\ pc = "idle"
    /\ runs < MaxRuns
    /\ runs' = runs + 1
    /\ add => generated_sql # None
    /\ add_clicked' = add
    /\ pc' = "start"
    /\ UNCHANGED <<schema_catalog, generated_sql, attempt, validation_messages,
                   last_error, preview_df, exc, preview_sql, previews,
                   pipeline_config, calls, repairs, helperVars, factoryVars, taskVars>>

\* if 'generated_sql' in st.session_state: ... down to the for statement.
\* get_schema_catalog runs outside the try and ends the run when it raises.
StartLoop(catalog_ok) ==
    /\ pc = "start"
    /\ IF generated_sql # None /\ catalog_ok
       THEN /\ pc' = "validate"
            /\ schema_catalog' \in FetchedCatalogs
            /\ attempt' = 1
            /\ validation_messages' = <<>>
            /\ preview_df' = None
            /\ last_error' = ""
            /\ calls' = <<>>
            /\ repairs' = 0
            /\ UNCHANGED add_clicked
       ELSE /\ pc' = "idle"
            /\ add_clicked' = FALSE
            /\ UNCHANGED <<schema_catalog, attempt, validation_messages,
                           preview_df, last_error, calls, repairs>>
    /\ UNCHANGED <<generated_sql, exc, preview_sql, previews, pipeline_config,
                   runs, helperVars, factoryVars, taskVars>>

\* range(1, max_retries + 1) with one value more
Mutant_HasNextAttempt(a) == a <= max_retries

\* for attempt in range(1, max_retries + 1): there is a next value
HasNextAttempt(a) == a < max_retries

\* the end of the loop body: the next attempt, or the code after the loop
NextAttempt ==
    IF HasNextAttempt(attempt)
    THEN attempt' = attempt + 1 /\ pc' = "validate" /\ repairs' = 0
    ELSE pc' = "report" /\ UNCHANGED <<attempt, repairs>>

\* The start of the loop body: validate_sql_with_cortex with the primary
\* model, with the fallback model when the primary gave nothing.
Validate(primary, fallback) ==
    /\ pc = "validate"
    /\ LET validated == ValidatedOf[primary]
       IN generated_sql' =
            IF validated # None THEN validated
            ELSE IF ValidatedOf[fallback] # None THEN ValidatedOf[fallback]
            ELSE generated_sql
    /\ calls' = ModelCalls("validate_sql_with_cortex", ValidatedOf, primary, fallback)
    /\ pc' = "repair"
    /\ UNCHANGED <<schema_catalog, add_clicked, attempt, validation_messages,
                   last_error,
                   preview_df, exc, preview_sql, previews, pipeline_config,
                   runs, repairs, helperVars, factoryVars, taskVars>>

\* repaired = auto_repair_missing_orderby_join(...)
Repair ==
    /\ pc = "repair"
    /\ repairs' = repairs + 1
    /\ schema_catalog' = CatalogAfterRepairOf[generated_sql][schema_catalog]
    /\ \E repaired \in {RepairOf[generated_sql][schema_catalog]} :
          IF repaired.kind = "raise"
          THEN /\ exc' = repaired.error
               /\ pc' = "except"
               /\ calls' = <<Call("auto_repair_missing_orderby_join", "", "raise")>>
               /\ UNCHANGED generated_sql
          ELSE /\ generated_sql' =
                    IF Truthy(repaired.value) THEN repaired.value ELSE generated_sql
               /\ pc' = "preview"
               /\ calls' = <<Call("auto_repair_missing_orderby_join", "",
                                Gave(repaired.value))>>
               /\ UNCHANGED exc
    /\ UNCHANGED <<add_clicked, attempt, validation_messages, last_error,
                   preview_df, preview_sql, previews, pipeline_config,
                   runs, helperVars, factoryVars, taskVars>>

\* the test of the break with no row required
Mutant_HasRows(df) == df # None /\ df[2] >= 0

\* df is not None and len(df.index) > 0
HasRows(df) == df # None /\ df[2] > 0

\* df = session.sql(build_preview_sql(generated_sql)).to_pandas(), and the
\* break when df has rows
Preview(df) ==
    /\ pc = "preview"
    /\ preview_sql' = PreviewSqlOf[generated_sql]
    /\ previews' = previews + 1
    /\ calls' = <<Call("to_pandas", "", Fetched(df))>>
    /\ IF df[1] = "Exception"
       THEN exc' = df[2] /\ pc' = "except" /\ UNCHANGED preview_df
       ELSE IF HasRows(df)
       THEN preview_df' = df /\ pc' = "report" /\ UNCHANGED exc
       ELSE pc' = "empty" /\ UNCHANGED <<preview_df, exc>>
    /\ UNCHANGED <<schema_catalog, add_clicked, generated_sql, attempt,
                   validation_messages, last_error, pipeline_config, runs,
                   repairs, helperVars, factoryVars, taskVars>>

\* the else branch of the preview: no rows, generate_sql_with_cortex again
Regenerate(primary, fallback) ==
    /\ pc = "empty"
    /\ validation_messages' = Append(validation_messages, NO_ROWS)
    /\ LET regenerated == GeneratedOf[primary]
       IN IF regenerated # None
          THEN /\ generated_sql' = regenerated
               /\ UNCHANGED last_error
          ELSE IF GeneratedOf[fallback] # None
          THEN /\ generated_sql' = GeneratedOf[fallback]
               /\ UNCHANGED last_error
          ELSE /\ last_error' = REGENERATION_FAILED
               /\ UNCHANGED generated_sql
    /\ calls' = ModelCalls("generate_sql_with_cortex", GeneratedOf,
                           primary, fallback)
    /\ NextAttempt
    /\ UNCHANGED <<schema_catalog, add_clicked, preview_df, exc, preview_sql,
                   previews, pipeline_config, runs, helperVars, factoryVars, taskVars>>

\* except Exception as e: the error is kept and the text is sent to
\* validate_sql_with_cortex with the hints
HandleException(primary, fallback) ==
    /\ pc = "except"
    /\ last_error' = exc
    /\ exc' = ""
    /\ schema_catalog' = CatalogAfterHintsOf[generated_sql][schema_catalog]
    /\ LET regenerated == ValidatedOf[primary]
       IN IF regenerated # None
          THEN /\ generated_sql' = regenerated
               /\ UNCHANGED validation_messages
          ELSE IF ValidatedOf[fallback] # None
          THEN /\ generated_sql' = ValidatedOf[fallback]
               /\ UNCHANGED validation_messages
          ELSE /\ validation_messages' =
                    Append(validation_messages, FailedAfterError(exc))
               /\ UNCHANGED generated_sql
    /\ calls' = ModelCalls("validate_sql_with_cortex", ValidatedOf,
                           primary, fallback)
    /\ NextAttempt
    /\ UNCHANGED <<add_clicked, preview_df, preview_sql, previews,
                   pipeline_config, runs, helperVars, factoryVars, taskVars>>

\* The code after the loop: the preview or the error is rendered, then the
\* form.  When the run was started by the Add button and the three required
\* fields are filled, insert_into_pipeline_factory inserts
\* st.session_state['generated_sql']; on success the key is deleted.  The
\* run ends and its local variables with it.
Report(filled, success) ==
    /\ pc = "report"
    /\ IF add_clicked /\ filled /\ success
       THEN /\ pipeline_config' = Append(pipeline_config, generated_sql)
            /\ generated_sql' = None
       ELSE UNCHANGED <<pipeline_config, generated_sql>>
    /\ pc' = "idle"
    /\ schema_catalog' = NoCatalog
    /\ add_clicked' = FALSE
    /\ attempt' = 0
    /\ validation_messages' = <<>>
    /\ last_error' = ""
    /\ preview_df' = None
    /\ preview_sql' = None
    /\ previews' = 0
    /\ calls' = <<>>
    /\ repairs' = 0
    /\ UNCHANGED <<exc, runs, helperVars, factoryVars, taskVars>>

\* the steps of a run that has started
RunStep ==
    \/ \E catalog_ok \in BOOLEAN : StartLoop(catalog_ok)
    \/ \E primary \in Responses :
          \E fallback \in FallbackOfValidate(primary) : Validate(primary, fallback)
    \/ Repair
    \/ \E df \in ExecutorResults : Preview(df)
    \/ \E primary \in Responses :
          \E fallback \in FallbackOfGenerate(primary) : Regenerate(primary, fallback)
    \/ \E primary \in Responses :
          \E fallback \in FallbackOfValidate(primary) : HandleException(primary, fallback)
    \/ \E filled \in BOOLEAN, success \in BOOLEAN : Report(filled, success)

Next ==
    \/ \E response \in Responses : ClickGenerate(response)
    \/ \E add \in BOOLEAN : ClickWidget(add)
    \/ RunStep

Spec == Init /\ [][Next]_vars

\* The script runs to its end once it has started: every call it makes
\* returns or raises.
FairSpec == Spec /\ WF_vars(RunStep)

(***************************************************************************)
(* C1 - C4                                                                 *)
(***************************************************************************)
\* the script is inside the for loop
InLoop == pc \in {"validate", "repair", "preview", "empty", "except"}

\* the loop has ended without a preview that has rows
Exhausted == pc = "report" /\ preview_df = None

\* C1: the loop counts its attempts 1, 2, ... and never beyond max_retries,
\* it executes at most one preview per attempt, so never more than
\* max_retries; when no preview has rows it ends exhausted after exactly
\* max_retries attempts; and a loop that has started always ends.
C1_ExactlyMaxRetriesAttempts ==
    /\ [](InLoop \/ pc = "report" =>
            /\ attempt \in 1..max_retries
            /\ previews <= attempt
            /\ previews <= max_retries)
    /\ [](Exhausted => attempt = max_retries)
    /\ [][InLoop /\ pc' = "validate" => attempt' = attempt + 1]_vars
    /\ (InLoop ~> pc = "report")

\* the loop ended exhausted after five previews
C1_Witness ==
    /\ Exhausted
    /\ attempt = max_retries
    /\ previews = max_retries

\* C2: when the loop ends exhausted, the list of failure reasons holds one
\* reason per attempt: its length is the attempt bound.
C2_OneReasonPerAttempt ==
    Exhausted => Len(validation_messages) = max_retries

\* single statement, starts with SELECT or WITH, no forbidden keyword
StructurallyValid(sql_text) ==
    /\ ~HasTopLevelSemicolon(ClassifierNormalize(sql_text))
    /\ FirstTokenIsSelectOrWith(sql_text)
    /\ ~HasForbiddenWord(sql_text)

\* C3: a candidate is sent to the executor for preview only if it is
\* structurally valid.
C3_OnlyValidCandidatesArePreviewed ==
    [][previews' = previews + 1 => StructurallyValid(generated_sql)]_vars

\* C4: the text inserted into PIPELINE_CONFIG is one the loop accepted: the
\* run that inserts it ended with a preview that has rows, and that preview
\* was the preview of the inserted text.
C4_InsertedTextWasAccepted ==
    [][pipeline_config' # pipeline_config =>
            /\ preview_df # None
            /\ preview_sql = build_preview_sql(pipeline_config'[Len(pipeline_config')])]_vars


(***************************************************************************)
(* C11                                                                     *)
(***************************************************************************)
\* the key the k-th FROM/JOIN target of st is written with: its alias, its
\* table when it has none
TargetKey(st, k) ==
    IF st.targets[k].aliasForm = "none" THEN st.targets[k].table
    ELSE AliasName(k)

\* the alias map of the statement st as it is written
WrittenAliases(st) ==
    { <<TargetKey(st, k), st.targets[k].table>> : k \in 1..Len(st.targets) }

\* C11: the alias map of extract_table_aliases has exactly one entry per
\* FROM/JOIN target and no other entry: an un-aliased table maps to itself
\* even when a keyword follows it, no keyword is recorded as an alias, and a
\* JOIN target that follows an un-aliased table still gets its entry.
C11_OneEntryPerTarget ==
    op = "extract_table_aliases" =>
        { out[i] : i \in 1..Len(out) } = WrittenAliases(stmt)

(***************************************************************************)
(* src/app.py: column references and their validation against the catalog  *)
(***************************************************************************)
\* extract_column_references: every <segment>\s*\.\s*<segment> of the text
extract_column_references(sql_text) ==
    IF ~Truthy(sql_text) THEN <<>> ELSE ScanPairs(sql_text, 1)

\* f"{base}.{col}"
Dotted(base, col) == base \o <<".">> \o col

\* the keys of the catalog that equal base_u in upper case
MatchedTables(catalog, base_u) == { t \in DOMAIN catalog : Upper(t) = base_u }

\* the body of the for loop of find_missing_columns for one reference: the
\* strings it appends to missing.  matched_table is the first key that
\* matches; the catalogs have at most one.
MissingOfRef(aliases, catalog, ref) ==
    TheOne({
        IF MatchedTables(catalog, Upper(base)) = {} THEN {Dotted(base, ref[2])}
        ELSE IF Upper(ref[2]) \notin
                    { Upper(c) : c \in catalog[TheOne(MatchedTables(catalog, Upper(base)))] }
             THEN {Dotted(base, ref[2])}
        ELSE {} :
        base \in {IF DictHas(aliases, ref[1]) THEN DictGet(aliases, ref[1]) ELSE ref[1]} })

find_missing_columns(sql_text, catalog) ==
    TheOne({ Sorted(UNION { MissingOfRef(aliases, catalog, refs[n]) : n \in 1..Len(refs) }) :
                aliases \in {extract_table_aliases(sql_text)},
                refs \in {extract_column_references(sql_text)} })

\* the clauses (group 1) of the matches of
\* \border\s+by\s+(.*?)(?:(?:limit|offset|fetch)\b|$) from position i on
RECURSIVE OrderByClauses(_, _)
OrderByClauses(s, i) ==
    TheOne({
        IF starts = {} THEN <<>>
        ELSE TheOne({ <<m.clause>> \o OrderByClauses(s, m.end) :
                        m \in {OrderByMatchAt(s, First(starts))} }) :
        starts \in {{ j \in i..Len(s) : OrderByMatchAt(s, j).found }} })

\* ,(?![^()]*\)) at position k of clause: a comma, and the first
\* parenthesis after it, if there is one, is not a closing one
IsSplitComma(clause, k) ==
    /\ clause[k] = ","
    /\ ~ \E j \in (k + 1)..Len(clause) :
            /\ clause[j] = ")"
            /\ \A h \in (k + 1)..(j - 1) : clause[h] \notin {"(", ")"}

\* re.split(r",(?![^()]*\))", clause) from position i on
RECURSIVE SplitOrderBy(_, _)
SplitOrderBy(clause, i) ==
    TheOne({
        IF commas = {} THEN << SubSeq(clause, i, Len(clause)) >>
        ELSE << SubSeq(clause, i, First(commas) - 1) >>
             \o SplitOrderBy(clause, First(commas) + 1) :
        commas \in {{ k \in i..Len(clause) : IsSplitComma(clause, k) }} })

KW_ASC == <<"A","S","C">>

KW_DESC == <<"D","E","S","C">>

KW_NULLS == <<"N","U","L","L","S">>

KW_FIRST == <<"F","I","R","S","T">>

KW_LAST == <<"L","A","S","T">>

\* (?i)\b(asc|desc)\b tried at i: the position after the match, 0 if none
AscDescEnd(s, i) ==
    IF WordAt(s, i, KW_ASC) THEN i + 3
    ELSE IF WordAt(s, i, KW_DESC) THEN i + 4
    ELSE 0

\* (?i)nulls\s+(first|last) tried at i: the position after the match, 0 if
\* none
NullsEnd(s, i) ==
    IF MatchAtNoCase(s, i, KW_NULLS) /\ i + 5 <= Len(s) /\ IsSpace(s[i + 5])
    THEN TheOne({ IF MatchAtNoCase(s, u, KW_FIRST) THEN u + 5
                  ELSE IF MatchAtNoCase(s, u, KW_LAST) THEN u + 4
                  ELSE 0 :
                    u \in {SkipSpaces(s, i + 5)} })
    ELSE 0

\* re.sub(r"(?i)\b(asc|desc)\b", "", s) from position i on
RECURSIVE RemoveAscDesc(_, _)
RemoveAscDesc(s, i) ==
    IF i > Len(s) THEN <<>>
    ELSE IF AscDescEnd(s, i) # 0 THEN RemoveAscDesc(s, AscDescEnd(s, i))
    ELSE <<s[i]>> \o RemoveAscDesc(s, i + 1)

\* re.sub(r"(?i)nulls\s+(first|last)", "", s) from position i on
RECURSIVE RemoveNulls(_, _)
RemoveNulls(s, i) ==
    IF i > Len(s) THEN <<>>
    ELSE IF NullsEnd(s, i) # 0 THEN RemoveNulls(s, NullsEnd(s, i))
    ELSE <<s[i]>> \o RemoveNulls(s, i + 1)

\* the body of the inner for loop of extract_order_by_unqualified_columns
\* for one part p: the columns it appends
ColumnsOfPart(p) ==
    TheOne({
        IF token = <<>> \/ Contains(token, <<"(">>) \/ Contains(token, <<".">>)
        THEN <<>>
        ELSE IF SegmentEnd(token, 1) = Len(token) + 1
        THEN << RemoveQuotes(token) >>
        ELSE <<>> :
        token \in {Strip(RemoveNulls(RemoveAscDesc(Strip(p), 1), 1))} })

\* the inner for loop over parts
RECURSIVE ColumnsOfParts(_)
ColumnsOfParts(parts) ==
    IF parts = <<>> THEN <<>>
    ELSE ColumnsOfPart(Head(parts)) \o ColumnsOfParts(Tail(parts))

\* the outer for loop over the ORDER BY clauses
RECURSIVE ColumnsOfClauses(_)
ColumnsOfClauses(clauses) ==
    IF clauses = <<>> THEN <<>>
    ELSE ColumnsOfParts(SplitOrderBy(Head(clauses), 1))
         \o ColumnsOfClauses(Tail(clauses))

extract_order_by_unqualified_columns(sql_text) ==
    IF ~Truthy(sql_text) THEN <<>>
    ELSE ColumnsOfClauses(OrderByClauses(sql_text, 1))

\* col_to_tables.get(col_u, []): one item <<table, column>> for every column
\* of the catalog that is col_u in upper case; the list holds the table of
\* each item
candidate_tables(catalog, col_u) ==
    { p \in UNION { { <<t, c>> : c \in catalog[t] } : t \in DOMAIN catalog } :
        Upper(p[2]) = col_u }

\* The two ambiguity notes, by the column and the tables they name: "Qualify ORDER BY {col} with
\* table {base} (unqualified reference)." and "ORDER BY column {col} exists
\* in multiple tables: {tables}. Qualify explicitly."
QualifyNote(col, base) == [note |-> "qualify", col |-> col, tables |-> {base}]

MultipleNote(col, tables) == [note |-> "multiple", col |-> col, tables |-> tables]

\* the body of the for loop of find_missing_order_by_columns for one column:
\* [missing: the strings it appends to missing, notes: to ambiguous_notes]
CheckOrderByColumn(base_tables, catalog, col) ==
    IF Cardinality(base_tables) = 1
    THEN TheOne({
            IF base \notin DOMAIN catalog
               \/ Upper(col) \notin { Upper(c) : c \in CatalogGet(catalog, base) }
            THEN [missing |-> {Dotted(base, col)}, notes |-> <<>>]
            ELSE [missing |-> {}, notes |-> <<>>] :
            base \in base_tables })
    ELSE TheOne({
            IF Cardinality(candidates) = 1
            THEN [missing |-> {},
                  notes |-> << QualifyNote(col, TheOne(candidates)[1]) >>]
            ELSE IF candidates = {}
            THEN [missing |-> {col}, notes |-> <<>>]
            ELSE [missing |-> {},
                  notes |-> << MultipleNote(col, { p[1] : p \in candidates }) >>] :
            candidates \in {candidate_tables(catalog, Upper(col))} })

\* the for loop over unq_cols from the n-th column on
RECURSIVE CheckOrderByColumns(_, _, _, _)
CheckOrderByColumns(base_tables, catalog, unq_cols, n) ==
    IF n > Len(unq_cols) THEN [missing |-> {}, notes |-> <<>>]
    ELSE TheOne({ [missing |-> one.missing \cup rest.missing,
                   notes |-> one.notes \o rest.notes] :
                    one \in {CheckOrderByColumn(base_tables, catalog, unq_cols[n])},
                    rest \in {CheckOrderByColumns(base_tables, catalog, unq_cols, n + 1)} })

\* find_missing_order_by_columns: <<missing, ambiguous_notes>>
find_missing_order_by_columns(sql_text, catalog) ==
    TheOne({ << Sorted(found.missing), found.notes >> :
        found \in {CheckOrderByColumns(
                        { aliases[i][2] : i \in 1..Len(aliases) },
                        catalog,
                        extract_order_by_unqualified_columns(sql_text), 1) :
                    aliases \in {extract_table_aliases(sql_text)}} })


(***************************************************************************)
(* Specification SpecCatalog: the validation functions applied to          *)
(* statements SELECT * FROM <target> [JOIN <target> ON ...] [WHERE <ref>   *)
(* = 1 | ORDER BY <ref>] with a catalog.                                   *)
(***************************************************************************)
T_ITEMS == <<"I","T","E","M","S">>

T_DRIVERS == <<"D","T","_","D","R","I","V","E","R","S">>

T_PERFORMANCE == <<"D","T","_","D","R","I","V","E","R","_","P","E","R","F","O","R","M","A","N","C","E">>

C_SKU == <<"S","K","U">>

C_SCORE == <<"S","C","O","R","E">>

C_DRIVERID == <<"D","R","I","V","E","R","I","D">>

\* the column as PREFERRED_JOIN_KEYS writes it
C_DriverID == <<"D","r","i","v","e","r","I","D">>

\* a catalog with the two tables of PREFERRED_JOIN_KEYS
drivers_catalog ==
    (T_DRIVERS :> {C_DriverID, C_NAME}) @@ (T_PERFORMANCE :> {C_DRIVERID, C_SCORE})

\* the catalogs the functions are called with
Catalogs == {full_catalog, orders_catalog, drivers_catalog}

\* a target of the statements: a bare table name, with a bare alias or none
CatTarget(table, aliasForm) ==
    [table |-> table, path |-> "bare", aliasForm |-> aliasForm]

\* the FROM/JOIN targets of the statements: one table, or ORDERS and
\* CUSTOMERS joined
CatTargets ==
    { << CatTarget(t, a) >> :
        t \in {T_ORDERS, T_CUSTOMERS, T_DRIVERS}, a \in {"none", "bare"} }
    \cup
    { << CatTarget(T_ORDERS, a), CatTarget(T_CUSTOMERS, b) >> :
        a \in {"none", "bare"}, b \in {"none", "bare"} }

\* the qualifiers of the reference: table names, the aliases o and c as
\* they are written and in upper case, a table name in lower case
CatQualifiers ==
    { T_ORDERS, T_CUSTOMERS, T_ITEMS, T_PERFORMANCE,
      <<"o">>, <<"c">>, <<"O">>, <<"o","r","d","e","r","s">> }

CatColumns == { C_ID, C_NAME, C_SKU, C_CUSTOMER_ID, <<"n","a","m","e">> }

\* The reference after the targets: none, qualifier.column or a column
\* (qual = <<>>), in a WHERE condition or in ORDER BY.
NoRef == [place |-> "none", qual |-> <<>>, col |-> <<>>]

CatRefs ==
    {NoRef} \cup
    [place : {"where", "order"}, qual : CatQualifiers \cup {<<>>}, col : CatColumns]

CatStmts == [targets : CatTargets, ref : CatRefs]

\* the name a target is referred to by: its alias, or its table
RenderKey(t, k) == IF t.aliasForm = "none" THEN t.table ELSE AliasName(k)

RenderRef(ref) ==
    LET r == IF ref.qual = <<>> THEN ref.col ELSE ref.qual \o <<".">> \o ref.col
    IN CASE ref.place = "none" -> <<>>
         [] ref.place = "where" -> <<" ","W","H","E","R","E"," ">> \o r \o <<" ","="," ","1">>
         [] ref.place = "order" -> <<" ","O","R","D","E","R"," ","B","Y"," ">> \o r

\* the ON condition of the join: the two targets on CUSTOMER_ID
RenderOn(ts) ==
    <<" ","O","N"," ">> \o RenderKey(ts[1], 1) \o <<".">> \o C_CUSTOMER_ID
        \o <<" ","="," ">> \o RenderKey(ts[2], 2) \o <<".">> \o C_CUSTOMER_ID

RenderCat(st) ==
    <<"S","E","L","E","C","T"," ","*"," ","F","R","O","M"," ">>
        \o RenderPath(st.targets[1]) \o RenderAlias(st.targets[1], 1)
        \o (IF Len(st.targets) = 1 THEN <<>>
            ELSE <<" ","J","O","I","N"," ">> \o RenderPath(st.targets[2])
                    \o RenderAlias(st.targets[2], 2) \o RenderOn(st.targets))
        \o RenderRef(st.ref)

InitCatalog ==
    /\ stmt \in CatStmts
    /\ sql_in = RenderCat(stmt)
    /\ op = "none"
    /\ arg = <<>>
    /\ out = <<>>
    /\ \E c \in Catalogs : LoopIdleWith(c)

Call_find_order_by_qualifiers_not_in_from ==
    /\ op = "none"
    /\ op' = "find_order_by_qualifiers_not_in_from"
    /\ arg' = sql_in
    /\ out' = find_order_by_qualifiers_not_in_from(sql_in)
    /\ UNCHANGED <<sql_in, stmt, loopVars>>

Call_auto_repair_missing_orderby_join ==
    /\ op = "none"
    /\ op' = "auto_repair_missing_orderby_join"
    /\ arg' = sql_in
    /\ out' = auto_repair_missing_orderby_join(sql_in, selected_database,
                                               selected_schema, schema_catalog)
    /\ UNCHANGED <<sql_in, stmt, loopVars>>

Call_find_missing_columns ==
    /\ op = "none"
    /\ op' = "find_missing_columns"
    /\ arg' = sql_in
    /\ out' = find_missing_columns(sql_in, schema_catalog)
    /\ UNCHANGED <<sql_in, stmt, loopVars>>

Call_find_missing_order_by_columns ==
    /\ op = "none"
    /\ op' = "find_missing_order_by_columns"
    /\ arg' = sql_in
    /\ out' = find_missing_order_by_columns(sql_in, schema_catalog)
    /\ UNCHANGED <<sql_in, stmt, loopVars>>

NextCatalog ==
    \/ Call_find_order_by_qualifiers_not_in_from
    \/ Call_auto_repair_missing_orderby_join
    \/ Call_find_missing_columns
    \/ Call_find_missing_order_by_columns

SpecCatalog == InitCatalog /\ [][NextCatalog]_vars

(***************************************************************************)
(* C12                                                                     *)
(***************************************************************************)
\* the names the FROM/JOIN clauses of the statement give: its aliases and
\* its tables, in upper case
FromJoinNames(st) ==
    { Upper(p[1]) : p \in WrittenAliases(st) } \cup { Upper(p[2]) : p \in WrittenAliases(st) }

\* the qualifiers of the ORDER BY references of the statement
OrderByQualifiers(st) ==
    IF st.ref.place = "order" /\ st.ref.qual # <<>> THEN {st.ref.qual} ELSE {}

\* C12: find_order_by_qualifiers_not_in_from returns exactly the sorted,
\* de-duplicated qualifiers of the ORDER BY q.column references that are,
\* whatever the letter case, neither an alias nor a table of the FROM/JOIN
\* clauses; a FROM/JOIN table or alias is never returned.
C12_ExactlyTheQualifiersNotInFrom ==
    op = "find_order_by_qualifiers_not_in_from" =>
        out = Sorted({ q \in OrderByQualifiers(stmt) : Upper(q) \notin FromJoinNames(stmt) })

\* C12, its example: for SELECT * FROM ORDERS ORDER BY CUSTOMERS.NAME the
\* function returns CUSTOMERS.
C12_Example ==
    /\ op = "find_order_by_qualifiers_not_in_from"
    /\ stmt = [targets |-> << CatTarget(T_ORDERS, "none") >>,
               ref |-> [place |-> "order", qual |-> T_CUSTOMERS, col |-> C_NAME]]
    => out = << T_CUSTOMERS >>


(***************************************************************************)
(* C13                                                                     *)
(***************************************************************************)
\* the statement names one table in FROM, its ORDER BY reference has a
\* qualifier that FROM/JOIN does not give, and the table and the qualifier
\* both carry their preferred join key in the catalog
RepairCase(st, catalog) ==
    /\ Len(st.targets) = 1
    /\ OrderByQualifiers(st) # {}
    /\ Upper(st.ref.qual) \notin FromJoinNames(st)
    /\ \E key \in lookup_preferred_join_key(st.targets[1].table, st.ref.qual, catalog) :
            Truthy(key)

\* how many times the word JOIN is written in s
JoinCount(s) == Cardinality({ i \in 1..Len(s) : WordAt(s, i, KW_JOIN) })

\* C13: for a statement with one FROM table and an ORDER BY qualifier absent
\* from FROM/JOIN, and a catalog in which both tables carry the preferred
\* join key, auto_repair_missing_orderby_join returns a text (it neither
\* raises nor returns None) with exactly one JOIN more, whose ORDER BY
\* reference is still there and for which
\* find_order_by_qualifiers_not_in_from no longer reports the table.
C13_RepairAddsOneJoin ==
    /\ op = "auto_repair_missing_orderby_join"
    /\ RepairCase(stmt, schema_catalog)
    => /\ out.kind = "return"
       /\ Truthy(out.value)
       /\ JoinCount(out.value) = JoinCount(sql_in) + 1
       /\ extract_order_by_qualified_pairs(out.value) =
            extract_order_by_qualified_pairs(sql_in)
       /\ \A i \in 1..Len(find_order_by_qualifiers_not_in_from(out.value)) :
            find_order_by_qualifiers_not_in_from(out.value)[i] # stmt.ref.qual

(***************************************************************************)
(* C15                                                                     *)
(***************************************************************************)
\* the names of a list, in upper case
UpperNames(names) == { Upper(names[i]) : i \in 1..Len(names) }

\* the statement with the qualifier of its reference written as q
WithQualifier(st, q) == [st EXCEPT !.ref.qual = q]

\* the statement with the names of its tables written in lower case
WithLowerTables(st) ==
    [st EXCEPT !.targets =
        [k \in 1..Len(st.targets) |->
            [st.targets[k] EXCEPT !.table = Lower(st.targets[k].table)]]]

\* C15, the qualifiers: find_missing_columns reports the same references
\* when only the letter case of the qualifier of a reference changes.
C15_QualifierCase ==
    op = "find_missing_columns" /\ stmt.ref.qual # <<>> =>
        \A q \in {Upper(stmt.ref.qual), Lower(stmt.ref.qual)} :
            UpperNames(find_missing_columns(RenderCat(WithQualifier(stmt, q)),
                                            schema_catalog))
                = UpperNames(out)

\* C15, the tables: with one base table, find_missing_order_by_columns
\* reports the same columns when only the letter case of the table name in
\* the statement changes.
C15_TableCase ==
    op = "find_missing_order_by_columns" /\ Len(stmt.targets) = 1 =>
        UpperNames(find_missing_order_by_columns(RenderCat(WithLowerTables(stmt)),
                                                 schema_catalog)[1])
            = UpperNames(out[1])

\* C15: changing only the letter case of a table name, alias or qualifier in
\* the statement never changes the outcome of find_missing_columns or of the
\* single-table branch of find_missing_order_by_columns.
C15_CaseNeverChangesOutcome == C15_QualifierCase /\ C15_TableCase

(***************************************************************************)
(* C16                                                                     *)
(***************************************************************************)
\* the qualified pairs <<q, c>> the statement is written with: the two
\* sides of the ON condition and the reference
WrittenPairs(st) ==
    (IF Len(st.targets) = 1 THEN {}
     ELSE { <<RenderKey(st.targets[k], k), C_CUSTOMER_ID>> : k \in 1..2 })
    \cup
    (IF st.ref.qual = <<>> THEN {} ELSE { <<st.ref.qual, st.ref.col>> })

\* the tables qualifier q stands for: the table the alias map of the
\* statement gives for q, whatever the letter case, or else q itself
BasesOf(st, q) ==
    IF \E p \in WrittenAliases(st) : Upper(p[1]) = Upper(q)
    THEN { p[2] : p \in { w \in WrittenAliases(st) : Upper(w[1]) = Upper(q) } }
    ELSE {q}

\* table base is in the catalog, whatever the letter case, and carries c
Carries(catalog, base, c) ==
    \E t \in DOMAIN catalog :
        /\ Upper(t) = Upper(base)
        /\ \E d \in catalog[t] : Upper(d) = Upper(c)

\* a list is sorted and holds no name twice
IsSortedSet(names) == names = Sorted({ names[i] : i \in 1..Len(names) })

\* C16: find_missing_columns returns, de-duplicated and sorted, exactly the
\* qualified pairs q.c of the statement, each under the table its qualifier
\* resolves to, whose qualifier does not resolve through the alias map to a
\* catalog table, or resolves to a table that lacks c; a pair that resolves
\* to a table carrying c is never reported.  The names are compared
\* whatever their letter case.
C16_ExactlyTheUnresolvedPairs ==
    op = "find_missing_columns" =>
        /\ IsSortedSet(out)
        /\ UpperNames(out) =
            { Upper(Dotted(r[1], r[2])) :
                r \in { x \in UNION { { <<base, w[2]>> : base \in BasesOf(stmt, w[1]) } :
                                         w \in WrittenPairs(stmt) } :
                            ~Carries(schema_catalog, x[1], x[2]) } }

(***************************************************************************)
(* C17                                                                     *)
(***************************************************************************)
\* the base tables the FROM/JOIN clauses of the statement name
WrittenBases(st) == { st.targets[k].table : k \in 1..Len(st.targets) }

\* the unqualified ORDER BY columns the statement is written with
WrittenOrderByColumns(st) ==
    IF st.ref.place = "order" /\ st.ref.qual = <<>> THEN {st.ref.col} ELSE {}

\* the tables of the catalog that carry column c
TablesCarrying(catalog, c) ==
    { t \in DOMAIN catalog : \E d \in catalog[t] : Upper(d) = Upper(c) }

\* what the classification of column c gives: <<missing, ambiguous_notes>>
Classified(st, catalog, c) ==
    IF Cardinality(WrittenBases(st)) = 1
    THEN LET base == TheOne(WrittenBases(st))
         IN IF Carries(catalog, base, c) THEN << <<>>, <<>> >>
            ELSE << << Dotted(base, c) >>, <<>> >>
    ELSE LET tables == TablesCarrying(catalog, c)
         IN IF tables = {} THEN << << c >>, <<>> >>
            ELSE IF Cardinality(tables) = 1
            THEN << <<>>, << QualifyNote(c, TheOne(tables)) >> >>
            ELSE << <<>>, << MultipleNote(c, tables) >> >>

\* C17: find_missing_order_by_columns classifies an unqualified ORDER BY
\* column as follows.  With exactly one base table in FROM/JOIN the column
\* is missing if and only if the table's catalog columns lack it.  With
\* several base tables, a column of no catalog table is missing, a column of
\* exactly one table gives one note recommending qualification, and a
\* column of several tables gives one note naming all of them.
C17_Classification ==
    op = "find_missing_order_by_columns" =>
        IF WrittenOrderByColumns(stmt) = {} THEN out = << <<>>, <<>> >>
        ELSE out = Classified(stmt, schema_catalog, stmt.ref.col)

(***************************************************************************)
(* Specification SpecJoinKey: lookup_preferred_join_key and                *)
(* choose_best_join_key applied to two table names and a catalog.          *)
(***************************************************************************)
C_name == <<"n","a","m","e">>

C_customer_id == <<"c","u","s","t","o","m","e","r","_","i","d">>

\* Catalogs for the join keys: the two tables of PREFERRED_JOIN_KEYS with
\* other common columns beside the preferred key; with the preferred key in
\* one of them only; two tables whose only common column is no id; two
\* tables with an id and a name in common, written in different letter case.
drivers_id_catalog ==
    (T_DRIVERS :> {C_DriverID, C_ID, C_NAME}) @@ (T_PERFORMANCE :> {C_DRIVERID, C_ID, C_NAME})

drivers_nokey_catalog ==
    (T_DRIVERS :> {C_DriverID, C_ID, C_NAME}) @@ (T_PERFORMANCE :> {C_ID, C_NAME, C_SCORE})

names_catalog ==
    (T_ORDERS :> {C_NAME, C_SKU}) @@ (T_CUSTOMERS :> {C_name, C_SCORE})

mixed_catalog ==
    (T_ORDERS :> {C_NAME, C_customer_id, C_SKU}) @@ (T_CUSTOMERS :> {C_name, C_CUSTOMER_ID, C_SKU})

\* two tables that share two identifier-shaped columns, and two that share
\* two other columns
shared_ids_catalog ==
    (T_ORDERS :> {C_ID, C_CUSTOMER_ID}) @@ (T_CUSTOMERS :> {C_ID, C_CUSTOMER_ID, C_NAME})

shared_names_catalog ==
    (T_ORDERS :> {C_NAME, C_SKU}) @@ (T_ITEMS :> {C_NAME, C_SKU})

JoinCatalogs ==
    { full_catalog, orders_catalog, drivers_catalog, drivers_id_catalog,
      drivers_nokey_catalog, names_catalog, mixed_catalog, shared_ids_catalog,
      shared_names_catalog }

\* the table names of the calls: tables of the catalogs and a table of none
JoinTables == { T_ORDERS, T_CUSTOMERS, T_DRIVERS, T_PERFORMANCE, T_ITEMS }

InitJoinKey ==
    /\ HelperIdle
    /\ \E c \in JoinCatalogs : LoopIdleWith(c)

Call_lookup_preferred_join_key(table_a, table_b) ==
    /\ op = "none"
    /\ op' = "lookup_preferred_join_key"
    /\ arg' = <<table_a, table_b>>
    /\ out' \in lookup_preferred_join_key(table_a, table_b, schema_catalog)
    /\ UNCHANGED <<sql_in, stmt, loopVars>>

Call_choose_best_join_key(table_a, table_b) ==
    /\ op = "none"
    /\ op' = "choose_best_join_key"
    /\ arg' = <<table_a, table_b>>
    /\ out' \in choose_best_join_key(table_a, table_b, schema_catalog)
    /\ UNCHANGED <<sql_in, stmt, loopVars>>

NextJoinKey ==
    \/ \E table_a \in JoinTables, table_b \in JoinTables :
            Call_lookup_preferred_join_key(table_a, table_b)
    \/ \E table_a \in JoinTables, table_b \in JoinTables :
            Call_choose_best_join_key(table_a, table_b)

SpecJoinKey == InitJoinKey /\ [][NextJoinKey]_vars

(***************************************************************************)
(* C14                                                                     *)
(***************************************************************************)
\* the columns of table t in the catalog, in upper case
CarriedBy(catalog, t) == { Upper(c) : c \in CatalogGet(catalog, t) }

\* the columns both tables carry, whatever the letter case
CommonColumns(catalog, table_a, table_b) ==
    CarriedBy(catalog, table_a) \cap CarriedBy(catalog, table_b)

\* the preferred join keys configured for the two tables, in upper case
PreferredKeys(table_a, table_b) ==
    { Upper(PREFERRED_JOIN_KEYS[i][2]) :
        i \in { j \in 1..Len(PREFERRED_JOIN_KEYS) :
                    PREFERRED_JOIN_KEYS[j][1] = <<Upper(table_a), Upper(table_b)>> } }

\* C14: choose_best_join_key returns the preferred key when one is
\* configured for the two tables and both carry it; otherwise an id-like
\* column both carry when there is one; otherwise some column both carry;
\* and None exactly when the tables have no column in common whatever the
\* letter case.  Every result that is not None is carried by both tables.
C14_JoinKeyPriority ==
    op = "choose_best_join_key" =>
        LET common == CommonColumns(schema_catalog, arg[1], arg[2])
            preferred == PreferredKeys(arg[1], arg[2]) \cap common
            id_like == { u \in common : is_id_like(u) }
        IN /\ (out = None) <=> (common = {})
           /\ out # None =>
                /\ Upper(out) \in common
                /\ out \in CatalogGet(schema_catalog, arg[1])
                /\ IF preferred # {} THEN Upper(out) \in preferred
                   ELSE id_like # {} => Upper(out) \in id_like

\* a call with an id-like column and another column in common, and no
\* preferred key: the id-like column is returned
C14_Witness ==
    /\ op = "choose_best_join_key"
    /\ PreferredKeys(arg[1], arg[2]) = {}
    /\ \E u \in CommonColumns(schema_catalog, arg[1], arg[2]) : ~is_id_like(u)
    /\ out # None
    /\ is_id_like(out)

(***************************************************************************)
(* Specification SpecExtract: the four extraction functions applied to     *)
(* texts of a few tokens, the empty text and texts with unbalanced quotes  *)
(* and parentheses among them.                                             *)
(***************************************************************************)
MaxExtractTokens == 4

ExtractTokens ==
    { <<"F","R","O","M"," ">>, <<"O","R","D","E","R"," ","B","Y"," ">>,
      <<"a">>, <<".">>, <<"\"">>, <<",">>, <<"(">> }

ExtractInputs == TextsOf(ExtractTokens, MaxExtractTokens)

InitExtract ==
    /\ stmt = <<>>
    /\ sql_in \in ExtractInputs
    /\ op = "none"
    /\ arg = <<>>
    /\ out = <<>>
    /\ LoopIdle

Extract_table_aliases ==
    /\ op = "none"
    /\ op' = "extract_table_aliases"
    /\ arg' = sql_in
    /\ out' = extract_table_aliases(sql_in)
    /\ UNCHANGED <<sql_in, stmt, loopVars>>

Extract_column_references ==
    /\ op = "none"
    /\ op' = "extract_column_references"
    /\ arg' = sql_in
    /\ out' = extract_column_references(sql_in)
    /\ UNCHANGED <<sql_in, stmt, loopVars>>

Extract_order_by_unqualified_columns ==
    /\ op = "none"
    /\ op' = "extract_order_by_unqualified_columns"
    /\ arg' = sql_in
    /\ out' = extract_order_by_unqualified_columns(sql_in)
    /\ UNCHANGED <<sql_in, stmt, loopVars>>

Extract_order_by_qualified_pairs ==
    /\ op = "none"
    /\ op' = "extract_order_by_qualified_pairs"
    /\ arg' = sql_in
    /\ out' = extract_order_by_qualified_pairs(sql_in)
    /\ UNCHANGED <<sql_in, stmt, loopVars>>

NextExtract ==
    \/ Extract_table_aliases
    \/ Extract_column_references
    \/ Extract_order_by_unqualified_columns
    \/ Extract_order_by_qualified_pairs

SpecExtract == InitExtract /\ [][NextExtract]_vars

(***************************************************************************)
(* C19                                                                     *)
(***************************************************************************)
\* the text holds word w, whatever the letter case
HasWord(s, w) == \E i \in 1..Len(s) : MatchAtNoCase(s, i, w)

\* a list of names, each a text
IsListOfNames(x) ==
    /\ DOMAIN x = 1..Len(x)
    /\ \A i \in 1..Len(x) : DOMAIN x[i] = 1..Len(x[i])

\* a list of pairs of names
IsListOfPairs(x) ==
    /\ DOMAIN x = 1..Len(x)
    /\ \A i \in 1..Len(x) : Len(x[i]) = 2 /\ IsListOfNames(x[i])

\* C19: for every text, the empty text and texts with unbalanced quotes
\* included, extract_table_aliases, extract_column_references,
\* extract_order_by_unqualified_columns and extract_order_by_qualified_pairs
\* return a value; without FROM or JOIN in the text the alias map is empty,
\* and without ORDER BY the two ORDER BY lists are empty.
C19_ExtractionIsTotal ==
    /\ op = "extract_table_aliases" =>
            /\ IsListOfPairs(out)
            /\ ~HasWord(arg, KW_FROM) /\ ~HasWord(arg, KW_JOIN) => out = <<>>
    /\ op = "extract_column_references" => IsListOfPairs(out)
    /\ op = "extract_order_by_unqualified_columns" =>
            /\ IsListOfNames(out)
            /\ ~HasWord(arg, KW_ORDER) => out = <<>>
    /\ op = "extract_order_by_qualified_pairs" =>
            /\ IsListOfPairs(out)
            /\ ~HasWord(arg, KW_ORDER) => out = <<>>

\* a text with an unbalanced quote and a qualified pair, but no ORDER BY:
\* extract_order_by_qualified_pairs has returned the empty list
C19_Witness ==
    /\ op = "extract_order_by_qualified_pairs"
    /\ ~HasWord(arg, KW_ORDER)
    /\ Cardinality({ i \in 1..Len(arg) : arg[i] = "\"" }) = 1
    /\ extract_column_references(arg) # <<>>
    /\ out = <<>>

(***************************************************************************)
(* C18                                                                     *)
(***************************************************************************)
\* find_missing_order_by_columns of every candidate with every catalog,
\* computed once
OrderByFindingsOf ==
    [c \in Candidates |->
        [k \in FetchedCatalogs |-> find_missing_order_by_columns(c, k)]]

\* the only finding about the ORDER BY columns of the candidate is one
\* ambiguity note
OnlyOneAmbiguityNote(sql_text, catalog) ==
    /\ OrderByFindingsOf[sql_text][catalog][1] = <<>>
    /\ Len(OrderByFindingsOf[sql_text][catalog][2]) = 1

\* the loop has ended with a preview that returned rows
Accepted_ == pc = "report" /\ preview_df # None

\* C18: an ambiguous ORDER BY column is advisory only.  A column with an
\* ambiguity note is not in the missing list, and a candidate whose only
\* finding is one ambiguity note is accepted by the retry loop with the
\* advisory attached to the accepted result.
C18_AmbiguityIsAdvisory ==
    generated_sql # None /\ schema_catalog # NoCatalog =>
        LET found == OrderByFindingsOf[generated_sql][schema_catalog]
        IN /\ \A i \in 1..Len(found[2]) :
                \A j \in 1..Len(found[1]) : found[1][j] # found[2][i].col
           /\ Accepted_ /\ OnlyOneAmbiguityNote(generated_sql, schema_catalog) =>
                \E n \in 1..Len(validation_messages) :
                    validation_messages[n] = found[2][1]

(***************************************************************************)
(* C20                                                                     *)
(***************************************************************************)
\* C20: the schema catalog is read-only.  From the first attempt to the
\* code after the loop, whatever the steps (validation, auto-repair with
\* its choice of a join key, join suggestions of the except clause,
\* preview, regeneration), the catalog keeps the tables and the column sets
\* get_schema_catalog returned.
C20_CatalogIsReadOnly ==
    [][InLoop => schema_catalog' = schema_catalog]_vars

\* the auto-repair has looked for a join key in a table the catalog does
\* not have, and left the catalog as it was
C20_Witness ==
    /\ pc = "preview"
    /\ schema_catalog = orders_catalog
    /\ generated_sql # None
    /\ find_order_by_qualifiers_not_in_from(generated_sql) = << T_CUSTOMERS >>
(***************************************************************************)
(* The end of the retry loop                                               *)
(***************************************************************************)
\* the previews of the last step that returned rows, by their place in the
\* calls of the step
RowsFetched ==
    { i \in 1..Len(calls) : calls[i] = Call("to_pandas", "", "rows") }

\* C21: the retry loop ends accepted exactly when a preview returned at least
\* one row.  While the loop runs no preview has returned rows; the code
\* after the loop is reached with a preview frame exactly when the step
\* before was a preview that returned rows, the only call of that step;
\* from the accepted state the run ends with no further call, and the
\* candidate text is not replaced by another text (the key is deleted when
\* the text is inserted into PIPELINE_CONFIG).
C21_AcceptedIffRowsReturned ==
    /\ [](InLoop => RowsFetched = {} /\ preview_df = None)
    /\ [](pc = "report" =>
            /\ (preview_df # None) <=> (RowsFetched # {})
            /\ RowsFetched # {} => Len(calls) = 1)
    /\ [][Accepted_ =>
            /\ pc' = "idle"
            /\ calls' = <<>>
            /\ generated_sql' \in {generated_sql, None}]_vars

\* the loop was left by the break in its third attempt
C21_Witness ==
    /\ Accepted_
    /\ attempt = 3
    /\ RowsFetched = {1}

(***************************************************************************)
(* A preview without rows                                                  *)
(***************************************************************************)
NoRowsFetched == calls = <<Call("to_pandas", "", "no rows")>>

\* the calls of a step are calls of fn: the primary model, and after it the
\* fallback model exactly when the primary model gave nothing
PrimaryThenFallback(fn, made) ==
    /\ Len(made) \in {1, 2}
    /\ made[1] \in {Call(fn, PRIMARY_MODEL, "text"), Call(fn, PRIMARY_MODEL, "nothing")}
    /\ Len(made) = 2 <=> made[1] = Call(fn, PRIMARY_MODEL, "nothing")
    /\ Len(made) = 2 =>
            made[2] \in {Call(fn, FALLBACK_MODEL, "text"),
                         Call(fn, FALLBACK_MODEL, "nothing")}

\* a call of made gave a text
SomeText(made) == \E i \in 1..Len(made) : made[i][3] = "text"

\* C22: a preview that executes without error and returns no row is a
\* regeneration trigger.  The step after it asks generate_sql_with_cortex
\* for a new candidate, the primary model first and the fallback model only
\* when the primary model gave nothing; the candidate becomes the text the
\* generator gave (it is kept when neither model gave one), the loop goes on
\* to its next attempt when the bound allows one, and neither the preview
\* nor the regeneration enters the except clause or sets an exception.
C22_NoRowsRegenerates ==
    /\ [](pc = "empty" <=> (InLoop /\ NoRowsFetched))
    /\ [](pc = "except" => ~NoRowsFetched)
    /\ [][pc = "empty" =>
            /\ PrimaryThenFallback("generate_sql_with_cortex", calls')
            /\ exc' = exc
            /\ IF SomeText(calls')
               THEN /\ generated_sql' \in { GeneratedOf[r] : r \in Responses } \ {None}
                    /\ last_error' = last_error
               ELSE /\ generated_sql' = generated_sql
                    /\ last_error' = REGENERATION_FAILED
            /\ IF attempt < max_retries
               THEN pc' = "validate" /\ attempt' = attempt + 1
               ELSE pc' = "report" /\ attempt' = attempt]_vars

\* the second attempt starts on a candidate the fallback model regenerated
\* after the first preview returned no row
C22_Witness ==
    /\ pc = "validate"
    /\ attempt = 2
    /\ calls = <<Call("generate_sql_with_cortex", PRIMARY_MODEL, "nothing"),
                 Call("generate_sql_with_cortex", FALLBACK_MODEL, "text")>>
    /\ generated_sql = GeneratedOf[R_ORDER]
    /\ validation_messages = <<NO_ROWS>>

(***************************************************************************)
(* The auto-repair inside the loop                                         *)
(***************************************************************************)
RepairCalls ==
    { Call("auto_repair_missing_orderby_join", "", r) :
        r \in {"text", "nothing", "raise"} }

TargetKinds == {"bare", "dotted", "quoted", "subquery", "function", "stage", "cte"}

WrittenTarget ==
    [k \in TargetKinds |->
        CASE k = "bare" -> <<"O", "R", "D", "E", "R", "S">>
          [] k = "dotted" -> <<"A", ".", "B">>
          [] k = "quoted" -> <<"\"", "A", "\"", ".", "\"", "B", "\"">>
          [] k = "subquery" -> <<"(", "S", "E", "L", "E", "C", "T", " ", "1", ")", " ", "x">>
          [] k = "function" -> <<"T", "A", "B", "L", "E", "(", "F", "(", ")", ")">>
          [] k = "stage" -> <<"@", "s", "t">>
          [] k = "cte" -> <<"c">>]

\* a statement: whether it starts with the CTE c, the target of FROM and the
\* target of JOIN ("none": no JOIN); the CTE is named only where defined
QualifyStmts ==
    { st \in [with : BOOLEAN, from : TargetKinds, join : TargetKinds \cup {"none"}] :
        ("cte" \in {st.from, st.join}) => st.with }

\* the statement as a text, each target written by written[kind]
RenderQualify(st, written) ==
    (IF st.with THEN <<"W", "I", "T", "H", " ", "c", " ", "A", "S", " ", "(", "S", "E", "L", "E", "C", "T", " ", "1", ")", " ">> ELSE <<>>)
    \o <<"S", "E", "L", "E", "C", "T", " ", "*", " ", "F", "R", "O", "M", " ">> \o written[st.from]
    \o (IF st.join = "none" THEN <<>>
        ELSE <<" ", "J", "O", "I", "N", " ">> \o written[st.join] \o <<" ", "O", "N", " ", "1", " ", "=", " ", "1">>)

InitQualify ==
    /\ stmt \in QualifyStmts
    /\ sql_in = RenderQualify(stmt, WrittenTarget)
    /\ op = "none"
    /\ arg = <<>>
    /\ out = <<>>
    /\ LoopIdle

Call_qualify_sql ==
    /\ op = "none"
    /\ op' = "qualify_sql"
    /\ arg' = sql_in
    /\ out' = qualify_sql(sql_in, selected_database, selected_schema)
    /\ UNCHANGED <<sql_in, stmt, loopVars>>

NextQualify == Call_qualify_sql

SpecQualify == InitQualify /\ [][NextQualify]_vars

\* the targets with the prefix "DB"."SC". on the unqualified name only
PrefixedTarget ==
    [k \in TargetKinds |->
        IF k = "bare"
        THEN QuoteName(selected_database) \o <<".">> \o QuoteName(selected_schema)
                \o <<".">> \o WrittenTarget[k]
        ELSE WrittenTarget[k]]

\* C24: qualify_sql prefixes database.schema to the unqualified FROM/JOIN
\* table names only: the result is the statement with the prefix before
\* each unqualified name, and with every dotted name (quoted or not),
\* subquery, TABLE(...) function, @stage and CTE name, and all text outside
\* the targets, exactly as written.
C24_QualifiesOnlyUnqualifiedNames ==
    op = "qualify_sql" => out = RenderQualify(stmt, PrefixedTarget)

(***************************************************************************)
(* src/app.py: the join key of two tables                                  *)
(***************************************************************************)
\* C25: the choice of the join key is deterministic.  For the two table
\* names and the catalog of a call, the column choose_best_join_key returns
\* is the only one it can return, whatever the order in which the column
\* sets of the catalog are iterated, also when the tables share several
\* identifier-shaped columns or several other columns.
C25_JoinKeyIsDeterministic ==
    op = "choose_best_join_key" =>
        \A key \in choose_best_join_key(arg[1], arg[2], schema_catalog) : key = out

(***************************************************************************)
(* src/app.py: what auto_repair_missing_orderby_join returns               *)
(***************************************************************************)
\* the text has a JOIN to the fully qualified table
JoinPresent(s, table) ==
    Contains(Upper(s),
             KW_JOIN \o <<" ">>
                \o Upper(QuoteName(selected_database) \o <<".">>
                            \o QuoteName(selected_schema) \o <<".">> \o table))

\* the cases in which auto_repair_missing_orderby_join has no plan: an empty
\* text, no ORDER BY qualifier missing from FROM/JOIN, no base table, no
\* base table with a join key to the missing table, no FROM clause, or the
\* JOIN to the missing table already there
NoPlan(s, catalog) ==
    \/ ~Truthy(s)
    \/ \E missing_quals \in {find_order_by_qualifiers_not_in_from(s)},
          present_bases \in {get_present_base_tables(s)} :
            \/ missing_quals = <<>>
            \/ present_bases = <<>>
            \/ ~ \E n \in 1..Len(present_bases) :
                    \E key \in choose_best_join_key(present_bases[n],
                                                    missing_quals[1], catalog) :
                        Truthy(key)
            \/ ~FromClauseFound(s)
            \/ JoinPresent(s, missing_quals[1])

\* C26: auto_repair_missing_orderby_join never raises; it returns None in
\* each case without a plan and the text with one JOIN more in every other
\* case.
C26_NonePerNoPlanCase ==
    op = "auto_repair_missing_orderby_join" =>
        /\ out.kind = "return"
        /\ IF NoPlan(sql_in, schema_catalog)
           THEN out.value = None
           ELSE /\ Truthy(out.value)
                /\ JoinCount(out.value) = JoinCount(sql_in) + 1

\* t is s with a text inserted before position k
InsertedAt(s, t, k) ==
    /\ Len(t) > Len(s)
    /\ SubSeq(t, 1, k - 1) = SubSeq(s, 1, k - 1)
    /\ SubSeq(t, Len(t) - (Len(s) - k), Len(t)) = SubSeq(s, k, Len(s))

ALLOWED_CLAUSE_PREFIXES ==
    {<<"w", "h", "e", "r", "e">>, <<"q", "u", "a", "l", "i", "f", "y">>, <<"g", "r", "o", "u", "p", " ", "b", "y">>, <<"h", "a", "v", "i", "n", "g">>, <<"o", "r", "d", "e", "r", " ", "b", "y">>, <<"l", "i", "m", "i", "t">>}

SOURCE_TABLE == <<"{", "S", "O", "U", "R", "C", "E", "_", "T", "A", "B", "L", "E", "}">>

\* str.splitlines() of a text whose only line break is "\n"
RECURSIVE SplitLines(_)
SplitLines(s) ==
    IF s = <<>> THEN <<>>
    ELSE TheOne({ <<SubSeq(s, 1, n - 1)>> \o SplitLines(SubSeq(s, n + 1, Len(s))) :
                    n \in {FindChar(s, 1, "\n")} })

\* the loop body of sanitize_snippet for one line: <<>> when the line is
\* dropped, the line without one closing semicolon otherwise
SanitizeLine(raw) ==
    TheOne({ IF l = <<>> THEN <<>>
             ELSE IF StartsWith(Lower(l), <<"u", "s", "e", " ">>) \/ StartsWith(Lower(l), <<"s", "e", "t", " ">>) THEN <<>>
             ELSE IF EndsWith(l, <<";">>) THEN <<SubSeq(l, 1, Len(l) - 1)>>
             ELSE <<l>> :
                l \in {Strip(raw)} })

\* '\n'.join(lines)
RECURSIVE JoinLines(_)
JoinLines(lines) ==
    IF lines = <<>> THEN <<>>
    ELSE IF Len(lines) = 1 THEN lines[1]
    ELSE lines[1] \o <<"\n">> \o JoinLines(Tail(lines))

RECURSIVE SanitizeLines(_)
SanitizeLines(raws) ==
    IF raws = <<>> THEN <<>>
    ELSE SanitizeLine(Head(raws)) \o SanitizeLines(Tail(raws))

sanitize_snippet(sql_text) ==
    Strip(JoinLines(SanitizeLines(SplitLines(sql_text))))

SINGLE_STATEMENT == "Transformation SQL must be a single statement (no semicolons)"

UNSUPPORTED_TOKEN == "Unsupported token"

CLAUSE_PREFIX == "Clause must start with WHERE/QUALIFY/GROUP BY/HAVING/ORDER BY/LIMIT"

\* validate_snippet: the message of the ValueError it raises, "" when it
\* returns
validate_snippet(sql_text) ==
    TheOne({ IF Contains(s_lower, <<";">>) THEN SINGLE_STATEMENT
             ELSE IF \E k \in 1..Len(PROHIBITED_TOKENS) :
                        Contains(s_lower, PROHIBITED_TOKENS[k])
             THEN UNSUPPORTED_TOKEN
             ELSE "" :
                s_lower \in {<<" ">> \o Lower(Strip(sql_text)) \o <<" ">>} })

\* str.replace(old, new)
RECURSIVE Replace(_, _, _)
Replace(s, old, new) ==
    IF Len(s) < Len(old) THEN s
    ELSE IF MatchAt(s, 1, old) THEN new \o Replace(SubSeq(s, Len(old) + 1, Len(s)), old, new)
    ELSE <<Head(s)>> \o Replace(Tail(s), old, new)

\* validate_snippet(s) and then the return of value
ValidatedReturn(s, value) ==
    TheOne({ IF error # "" THEN [kind |-> "raise", error |-> error]
             ELSE [kind |-> "return", value |-> value] :
                error \in {validate_snippet(s)} })

\* build_select_sql, "Clause append mode": no validate_snippet here
ClauseAppend(s, quoted_source_table) ==
    IF ~ \E p \in ALLOWED_CLAUSE_PREFIXES : StartsWith(Lower(LStrip(s)), p)
    THEN [kind |-> "raise", error |-> CLAUSE_PREFIX]
    ELSE [kind |-> "return",
          value |-> <<"s", "e", "l", "e", "c", "t", " ", "*", " ", "f", "r", "o", "m", " ">> \o quoted_source_table \o <<" ">> \o s]

\* build_select_sql: [kind |-> "return", value] or [kind |-> "raise", error]
build_select_sql(snippet, quoted_source_table) ==
    TheOne({ IF Contains(s, SOURCE_TABLE)
             THEN ValidatedReturn(s, Replace(s, SOURCE_TABLE, quoted_source_table))
             ELSE IF \/ StartsWith(Lower(LStrip(s)), kw_select)
                     \/ StartsWith(Lower(LStrip(s)), kw_with)
             THEN ValidatedReturn(s, s)
             ELSE ClauseAppend(s, quoted_source_table) :
                s \in {sanitize_snippet(snippet)} })

\* the snippets: texts of at most MaxSnippetTokens tokens
MaxSnippetTokens == 3

SnippetTokens ==
    { <<"s", "e", "l", "e", "c", "t", " ", "1">>,
      <<"w", "h", "e", "r", "e", " ", "x">>,
      <<"{", "S", "O", "U", "R", "C", "E", "_", "T", "A", "B", "L", "E", "}">>,
      <<";">>,
      <<" ", "d", "r", "o", "p", " ">>,
      <<"\n">>,
      <<"u", "s", "e", " ">> }

SnippetInputs == TextsOf(SnippetTokens, MaxSnippetTokens)

\* quote_identifier('SRC')
q_source == <<"\"", "S", "R", "C", "\"">>

InitSnippet ==
    /\ sql_in \in SnippetInputs
    /\ stmt = <<>>
    /\ op = "none"
    /\ arg = <<>>
    /\ out = <<>>
    /\ LoopIdle

Call_sanitize_snippet ==
    /\ op = "none"
    /\ op' = "sanitize_snippet"
    /\ arg' = sql_in
    /\ out' = sanitize_snippet(sql_in)
    /\ UNCHANGED <<sql_in, stmt, loopVars>>

Call_build_select_sql ==
    /\ op = "none"
    /\ op' = "build_select_sql"
    /\ arg' = sql_in
    /\ out' = build_select_sql(sql_in, q_source)
    /\ UNCHANGED <<sql_in, stmt, loopVars>>

NextSnippet ==
    \/ Call_sanitize_snippet
    \/ Call_build_select_sql

SpecSnippet == InitSnippet /\ [][NextSnippet]_vars

\* the text has a semicolon or, lower-cased and between two spaces as
\* validate_snippet reads it, one of the prohibited tokens
Unsafe(s) ==
    \/ Contains(s, <<";">>)
    \/ \E k \in 1..Len(PROHIBITED_TOKENS) :
            Contains(<<" ">> \o Lower(s) \o <<" ">>, PROHIBITED_TOKENS[k])

\* C29: every text build_select_sql returns, in each of its three modes,
\* has no semicolon and none of the prohibited tokens.
C29_ReturnedSqlIsSafe ==
    op = "build_select_sql" /\ out.kind = "return" => ~Unsafe(out.value)

(***************************************************************************)
(* src/Pipeline Factory/app.py: the script from the Generate button to the *)
(* Insert button                                                           *)
(***************************************************************************)
MaxFactoryRuns == 7

\* texts the model can answer, after res.strip().strip('`')
F_SELECT == <<"S", "E", "L", "E", "C", "T", " ", "1">>

F_DROP == <<"D", "R", "O", "P", " ", "T", "A", "B", "L", "E", " ", "T">>

F_TWO == <<"S", "E", "L", "E", "C", "T", " ", "1", ";", " ", "S", "E", "L", "E", "C", "T", " ", "2">>

FactoryTexts == {F_SELECT, F_DROP, F_TWO}

\* is_single_select and enforce_read_only of every text, computed once
IsSelectOf == [s \in FactoryTexts |-> PF_is_single_select(s)]

IsReadOnlyOf == [s \in FactoryTexts |-> PF_enforce_read_only(s)]

\* the Generate handler raised: the run stops there
Aborted == <<"Aborted">>

InitFactory == HelperIdle /\ LoopIdle

\* "Generate SQL with Cortex" is clicked: res is the text stored in the
\* session state, None when the handler only shows an error (no allowed
\* table, no prompt), Aborted when the call to the model raises.  The script
\* goes on to the validation section in the same run.
PF_ClickGenerate(res) ==
    /\ pf_pc = "idle"
    /\ pf_runs < MaxFactoryRuns
    /\ pf_runs' = pf_runs + 1
    /\ insert_clicked' = FALSE
    /\ pf_calls' = <<>>
    /\ IF res = Aborted
       THEN /\ pf_pc' = "idle"
            /\ insert_enabled' = FALSE
            /\ UNCHANGED pf_sql
       ELSE /\ pf_pc' = "validation"
            /\ pf_sql' = IF res = None THEN pf_sql ELSE res
            /\ UNCHANGED insert_enabled
    /\ UNCHANGED <<target_dt, is_select, is_ro, explain_ok, preview_ok, pf_config>>
    /\ UNCHANGED <<helperVars, taskVars, pc, schema_catalog, add_clicked,
                   generated_sql, attempt, validation_messages, last_error,
                   preview_df, exc, preview_sql, previews, pipeline_config,
                   runs, calls, repairs>>

\* one of the three target text inputs is changed: the script runs again
PF_EditTarget(field, value) ==
    /\ pf_pc = "idle"
    /\ pf_runs < MaxFactoryRuns
    /\ pf_runs' = pf_runs + 1
    /\ target_dt' = [target_dt EXCEPT ![field] = value]
    /\ target_dt' # target_dt
    /\ insert_clicked' = FALSE
    /\ pf_calls' = <<>>
    /\ pf_pc' = "validation"
    /\ UNCHANGED <<pf_sql, is_select, is_ro, explain_ok, preview_ok,
                   insert_enabled, pf_config>>
    /\ UNCHANGED <<helperVars, taskVars, pc, schema_catalog, add_clicked,
                   generated_sql, attempt, validation_messages, last_error,
                   preview_df, exc, preview_sql, previews, pipeline_config,
                   runs, calls, repairs>>

\* "Insert into PIPELINE_CONFIG (PENDING)" is clicked, which the page allows
\* when the last run rendered the button with disabled=False; the script
\* runs again and st.button returns True in that run.
PF_ClickInsert ==
    /\ pf_pc = "idle"
    /\ pf_runs < MaxFactoryRuns
    /\ insert_enabled
    /\ pf_runs' = pf_runs + 1
    /\ insert_clicked' = TRUE
    /\ pf_calls' = <<>>
    /\ pf_pc' = "validation"
    /\ UNCHANGED <<pf_sql, target_dt, is_select, is_ro, explain_ok, preview_ok,
                   insert_enabled, pf_config>>
    /\ UNCHANGED <<helperVars, taskVars, pc, schema_catalog, add_clicked,
                   generated_sql, attempt, validation_messages, last_error,
                   preview_df, exc, preview_sql, previews, pipeline_config,
                   runs, calls, repairs>>

\* if "generated_sql" in st.session_state: is_select and is_ro.  Without
\* the key the script ends and the Insert button is not on the page.
PF_Validation ==
    /\ pf_pc = "validation"
    /\ pf_calls' = <<>>
    /\ IF pf_sql = None
       THEN /\ pf_pc' = "idle"
            /\ insert_enabled' = FALSE
            /\ insert_clicked' = FALSE
            /\ UNCHANGED <<is_select, is_ro>>
       ELSE /\ pf_pc' = "explain"
            /\ is_select' = IsSelectOf[pf_sql]
            /\ is_ro' = IsReadOnlyOf[pf_sql]
            /\ UNCHANGED <<insert_enabled, insert_clicked>>
    /\ UNCHANGED <<pf_sql, target_dt, explain_ok, preview_ok, pf_config, pf_runs>>
    /\ UNCHANGED <<helperVars, taskVars, pc, schema_catalog, add_clicked,
                   generated_sql, attempt, validation_messages, last_error,
                   preview_df, exc, preview_sql, previews, pipeline_config,
                   runs, calls, repairs>>

\* plan = explain_query(session, sql_text), whatever is_select and is_ro are
PF_Explain(ok) ==
    /\ pf_pc = "explain"
    /\ pf_calls' = <<"explain_query">>
    /\ explain_ok' = ok
    /\ pf_pc' = "preview"
    /\ UNCHANGED <<pf_sql, target_dt, is_select, is_ro, preview_ok,
                   insert_clicked, insert_enabled, pf_config, pf_runs>>
    /\ UNCHANGED <<helperVars, taskVars, pc, schema_catalog, add_clicked,
                   generated_sql, attempt, validation_messages, last_error,
                   preview_df, exc, preview_sql, previews, pipeline_config,
                   runs, calls, repairs>>

\* preview_ok = False; if is_select and is_ro and explain_ok: preview_query
PF_Preview(ok) ==
    /\ pf_pc = "preview"
    /\ IF is_select /\ is_ro /\ explain_ok
       THEN pf_calls' = <<"preview_query">> /\ preview_ok' = ok
       ELSE pf_calls' = <<>> /\ preview_ok' = FALSE
    /\ pf_pc' = "create"
    /\ UNCHANGED <<pf_sql, target_dt, is_select, is_ro, explain_ok,
                   insert_clicked, insert_enabled, pf_config, pf_runs>>
    /\ UNCHANGED <<helperVars, taskVars, pc, schema_catalog, add_clicked,
                   generated_sql, attempt, validation_messages, last_error,
                   preview_df, exc, preview_sql, previews, pipeline_config,
                   runs, calls, repairs>>

\* can_create
can_create ==
    /\ is_select /\ is_ro /\ explain_ok /\ preview_ok
    /\ target_dt.database # "" /\ target_dt.schema # "" /\ target_dt.name # ""

\* if st.button("Insert into PIPELINE_CONFIG (PENDING)", disabled=not
\* can_create): insert_pipeline_config(...), whose exception is caught.  The
\* button is rendered with the can_create of this run; st.button returns the
\* click that started the run.  The run ends and its local variables with it.
PF_Create(inserted) ==
    /\ pf_pc = "create"
    /\ insert_enabled' = can_create
    /\ IF insert_clicked
       THEN /\ pf_calls' = <<"insert_pipeline_config">>
            /\ pf_config' =
                    IF inserted
                    THEN Append(pf_config, [sql_select |-> pf_sql, target |-> target_dt])
                    ELSE pf_config
       ELSE /\ pf_calls' = <<>>
            /\ UNCHANGED pf_config
    /\ pf_pc' = "idle"
    /\ insert_clicked' = FALSE
    /\ is_select' = FALSE
    /\ is_ro' = FALSE
    /\ explain_ok' = FALSE
    /\ preview_ok' = FALSE
    /\ UNCHANGED <<pf_sql, target_dt, pf_runs>>
    /\ UNCHANGED <<helperVars, taskVars, pc, schema_catalog, add_clicked,
                   generated_sql, attempt, validation_messages, last_error,
                   preview_df, exc, preview_sql, previews, pipeline_config,
                   runs, calls, repairs>>

NextFactory ==
    \/ \E res \in FactoryTexts \cup {None, Aborted} : PF_ClickGenerate(res)
    \/ \E field \in {"database", "schema", "name"}, value \in {"", "DB", "SC", "DT"} :
            PF_EditTarget(field, value)
    \/ PF_ClickInsert
    \/ PF_Validation
    \/ \E ok \in BOOLEAN : PF_Explain(ok)
    \/ \E ok \in BOOLEAN : PF_Preview(ok)
    \/ \E inserted \in BOOLEAN : PF_Create(inserted)

SpecFactory == InitFactory /\ [][NextFactory]_vars

\* C28: insert_pipeline_config runs only in a state in which the generated
\* SQL passed is_single_select and enforce_read_only, EXPLAIN and the
\* preview both executed without error and the target database, schema and
\* table name are all non-empty; and the preview is executed only after
\* is_single_select, enforce_read_only and EXPLAIN succeeded.
C28_InsertOnlyAfterAllChecks ==
    /\ [][pf_calls' = <<"insert_pipeline_config">> =>
            /\ is_select /\ is_ro /\ explain_ok /\ preview_ok
            /\ target_dt.database # "" /\ target_dt.schema # ""
            /\ target_dt.name # ""]_vars
    /\ [][pf_calls' = <<"preview_query">> =>
            is_select /\ is_ro /\ explain_ok]_vars

(***************************************************************************)
(* apps/streamlit/app.py: PIPELINE_CONFIG and RUN_PIPELINE_FACTORY, which  *)
(* PIPELINE_ORCHESTRATOR_TASK calls every minute                           *)
(***************************************************************************)
\* the pipeline ids, in the order of "order by pipeline_id"
MaxPipelines == 3

PipelineIds == 1..MaxPipelines

\* a snippet build_select_sql accepts and one it rejects
S_WHERE == <<"w", "h", "e", "r", "e", " ", "x">>

S_DROP == <<"d", "r", "o", "p", " ", "x">>

TaskSnippets == {S_WHERE, S_DROP}

\* build_select_sql of every snippet, computed once
BuildOf == [s \in TaskSnippets |-> build_select_sql(s, q_source)]

\* the ids of the rows with status = 'PENDING', order by pipeline_id
RECURSIVE PendingFrom(_, _)
PendingFrom(table, id) ==
    IF id > MaxPipelines THEN <<>>
    ELSE IF id \in DOMAIN table /\ table[id].status = "PENDING"
         THEN <<id>> \o PendingFrom(table, id + 1)
    ELSE PendingFrom(table, id + 1)

InitTask == HelperIdle /\ LoopIdle

\* a row is inserted with status PENDING (create_pipeline_with_overrides,
\* insert_pipeline_config); creatable tells whether "create or replace
\* dynamic table" with the row's target, warehouse and select succeeds
InsertPending(id, snippet, creatable) ==
    /\ id \notin DOMAIN config
    /\ config' = config @@ (id :> [snippet |-> snippet, creatable |-> creatable,
                                   status |-> "PENDING"])
    /\ UNCHANGED <<task_pc, task_rows>>
    /\ UNCHANGED <<helperVars, factoryVars, pc, schema_catalog, add_clicked,
                   generated_sql, attempt, validation_messages, last_error,
                   preview_df, exc, preview_sql, previews, pipeline_config,
                   runs, calls, repairs>>

\* run: the select of the PENDING rows; 'No pending pipelines.' without one
TaskStart ==
    /\ task_pc = "idle"
    /\ \E rows \in {PendingFrom(config, 1)} :
          IF rows = <<>>
          THEN UNCHANGED <<task_pc, task_rows>>
          ELSE task_pc' = "loop" /\ task_rows' = rows
    /\ UNCHANGED config
    /\ UNCHANGED <<helperVars, factoryVars, pc, schema_catalog, add_clicked,
                   generated_sql, attempt, validation_messages, last_error,
                   preview_df, exc, preview_sql, previews, pipeline_config,
                   runs, calls, repairs>>

\* the body of "for r in rows": build_select_sql, create or replace dynamic
\* table, update ... set status = 'ACTIVE'.  Nothing catches an exception
\* of build_select_sql or of session.sql(dt_sql).collect(): it ends the
\* procedure.
TaskRow ==
    /\ task_pc = "loop"
    /\ \E r \in {Head(task_rows)} :
          IF BuildOf[config[r].snippet].kind = "raise" \/ ~config[r].creatable
          THEN /\ task_pc' = "idle"
               /\ task_rows' = <<>>
               /\ UNCHANGED config
          ELSE /\ config' = [config EXCEPT ![r].status = "ACTIVE"]
               /\ task_rows' = Tail(task_rows)
               /\ task_pc' = IF Tail(task_rows) = <<>> THEN "idle" ELSE "loop"
    /\ UNCHANGED <<helperVars, factoryVars, pc, schema_catalog, add_clicked,
                   generated_sql, attempt, validation_messages, last_error,
                   preview_df, exc, preview_sql, previews, pipeline_config,
                   runs, calls, repairs>>

NextTask ==
    \/ \E id \in PipelineIds, snippet \in TaskSnippets, creatable \in BOOLEAN :
            InsertPending(id, snippet, creatable)
    \/ TaskStart
    \/ TaskRow

SpecTask == InitTask /\ [][NextTask]_vars

\* The task is scheduled every minute and a procedure that has started runs
\* on: each of the two is taken when it stays possible.
FairSpecTask == SpecTask /\ WF_vars(TaskStart) /\ WF_vars(TaskRow)

\* the row id is PENDING, build_select_sql accepts its snippet and its
\* dynamic table can be created
PendingAndValid(id) ==
    /\ id \in DOMAIN config
    /\ config[id].status = "PENDING"
    /\ BuildOf[config[id].snippet].kind = "return"
    /\ config[id].creatable

IsActive(id) == id \in DOMAIN config /\ config[id].status = "ACTIVE"

\* C30: under repeated runs of RUN_PIPELINE_FACTORY every PENDING row with a
\* valid snippet eventually becomes ACTIVE, whatever the rows with smaller
\* pipeline ids are.
C30_ValidRowBecomesActive ==
    \A id \in PipelineIds : PendingAndValid(id) ~> IsActive(id)

====
